---- MODULE Spec2Model ----
(***************************************************************************)
(* Model of the skill-inference and question-selection engine of           *)
(* backend/resume_analyzer.py (class ResumeAnalyzer) and of the endpoints  *)
(* of backend/main.py that drive it.                                       *)
(*                                                                         *)
(* Strings are TLA+ strings; Python's None is the value None below.  List  *)
(* indices recorded in the usage history are 0-based, as in the code.  The *)
(* "solution" field of a question is not modelled: it is produced by a     *)
(* separate completion call whose failures are caught, and it never feeds  *)
(* back into the selection logic.                                          *)
(***************************************************************************)
EXTENDS Integers, Sequences, FiniteSets, TLC

VARIABLES
    question_usage,   \* self.question_usage: (skill, level) -> list of used indices
    rot,              \* the rotator's caller: last call of _get_next_question_from_bank
    gen,              \* one generate_questions call: inputs, position, locals
    conc,             \* two requests inside _get_next_question_from_bank, step by step
    det,              \* one detect_skills call
    api,              \* one request to /api/analyze_resume or /api/refresh_question
    judge,            \* one request to /agents/judge
    parse,            \* one _parse_json_from_response call
    inf,              \* one infer_skill_level call
    flow              \* one analyze call, step by step: position, calls made

vars == <<question_usage, rot, gen, conc, det, api, judge, parse, inf, flow>>

-----------------------------------------------------------------------------
(* Bounds of the model *)

\* calls of next on one (skill, level) whose pool has fewer than 3 questions
MaxCalls == 11
\* calls of next on one (skill, level) whose pool has 3 or more questions
MaxCallsLarge == 6
\* length of the detected-skills lists built freely from DetectedEntries
MaxDetected == 3
\* length of the longest list of detected skills with distinct keys
MaxDetectedLong == 6
\* length of the completion outputs built freely from RawItems
MaxAi == 2
\* length of the longest completion output
MaxAiLong == 10
\* number of words of a resume text
MaxWords == 2
\* number of pieces of a question sent to the judge
MaxPieces == 3
\* number of objects the third strategy of the JSON extractor finds
MaxMatches == 2

-----------------------------------------------------------------------------
(* Values *)

None == "None"

Levels == {"beginner", "intermediate", "advanced"}

\* Python truthiness of an Optional[str]
Truthy(s) == s /= None /\ s /= ""

\* the question bank loaded by __init__: the bank of the end-to-end example,
\* extended with pools of every shape (missing level, empty list, singleton,
\* pair, triple, a list that repeats one text)
question_bank ==
    << [skill |-> "python", displayName |-> "Python",
        levels |-> [beginner |-> <<"Q1">>,
                    intermediate |-> <<"Q2", "Q3">>,
                    advanced |-> <<"Q5", "Q6", "Q7">>]],
       [skill |-> "sql", displayName |-> "SQL",
        levels |-> [intermediate |-> <<"Q4">>,
                    advanced |-> << >>]],
       [skill |-> "javascript", displayName |-> "JavaScript",
        levels |-> [beginner |-> <<"Q8", "Q8">>,
                    intermediate |-> <<"Q9">>]],
       [skill |-> "react", displayName |-> "React",
        levels |-> [advanced |-> <<"Q10">>]],
       [skill |-> "html", displayName |-> "HTML",
        levels |-> [intermediate |-> <<"Q11">>]],
       [skill |-> "css", displayName |-> "CSS",
        levels |-> [intermediate |-> <<"Q12">>]],
       [skill |-> "nodejs", displayName |-> "Node.js",
        levels |-> [intermediate |-> <<"Q13">>]] >>

\* self.skill_keys
skill_keys == {question_bank[i].skill : i \in 1..Len(question_bank)}

\* question_bank_dict = {e["skill"]: e for e in self.question_bank}
question_bank_dict ==
    [k \in skill_keys |->
        question_bank[CHOOSE i \in 1..Len(question_bank) :
            /\ question_bank[i].skill = k
            /\ \A j \in (i+1)..Len(question_bank) : question_bank[j].skill /= k]]

\* skill_entry["levels"].get(level, [])
LevelQuestions(skill_key, level) ==
    IF level \in DOMAIN question_bank_dict[skill_key].levels
    THEN question_bank_dict[skill_key].levels[level]
    ELSE << >>

\* the pool the bank holds for (skill_key, level); empty for an unknown skill
Pool(skill_key, level) ==
    IF skill_key \in skill_keys THEN LevelQuestions(skill_key, level) ELSE << >>

UsageKeys == skill_keys \X Levels

-----------------------------------------------------------------------------
(* QuestionRotator: _get_next_question_from_bank *)

MAX_REPEATS == 10

\* s[-n:]
LastN(s, n) == IF Len(s) <= n THEN s ELSE SubSeq(s, Len(s) - n + 1, Len(s))

\* s.count(x)
Count(s, x) == Cardinality({i \in 1..Len(s) : s[i] = x})

\* the question is the excluded one (lines 706 and 720)
IsExcluded(question, exclude_question) ==
    Truthy(exclude_question) /\ question = exclude_question

\* lines 703-714: indices not excluded and not filling the recent history
AvailableIndices(level_questions, used_indices, exclude_question) ==
    {idx \in 0..(Len(level_questions) - 1) :
        /\ ~IsExcluded(level_questions[idx + 1], exclude_question)
        /\ Count(LastN(used_indices, MAX_REPEATS), idx) < MAX_REPEATS}

\* mutant of ResetIndices: the reset forgets the exclusion
ResetIndicesAll(level_questions, exclude_question) ==
    0..(Len(level_questions) - 1)

\* lines 718-721: every index except the excluded question
ResetIndices(level_questions, exclude_question) ==
    {idx \in 0..(Len(level_questions) - 1) :
        ~IsExcluded(level_questions[idx + 1], exclude_question)}

\* lines 717-724: the candidates after the reset branch
CandidateIndices(level_questions, used_indices, exclude_question) ==
    IF AvailableIndices(level_questions, used_indices, exclude_question) = {}
    THEN ResetIndices(level_questions, exclude_question)
    ELSE AvailableIndices(level_questions, used_indices, exclude_question)

\* mutant of HistoryAfterReset: the reset never clears the history
HistoryAfterResetKept(level_questions, used_indices, exclude_question) == used_indices

\* lines 717-724: the history after the reset branch
HistoryAfterReset(level_questions, used_indices, exclude_question) ==
    IF /\ AvailableIndices(level_questions, used_indices, exclude_question) = {}
       /\ Len(used_indices) >= MAX_REPEATS
    THEN << >>
    ELSE used_indices

\* mutant of FallbackQuestion: no fallback, the call gives up
FallbackQuestionNone(level_questions, exclude_question) == None

\* lines 733-736: the fallback when no candidate is left
FallbackQuestion(level_questions, exclude_question) ==
    IF /\ Truthy(exclude_question)
       /\ level_questions[1] = exclude_question
       /\ Len(level_questions) > 1
    THEN level_questions[2]
    ELSE level_questions[1]

\* The outcomes of one call: the returned question (or None), the index that
\* random.choice selected (-1 when none was), and the usage map afterwards.
get_next_question_from_bank(usage, skill_key, level, exclude_question) ==
    IF skill_key \notin skill_keys
    THEN {[ret |-> None, idx |-> -1, usage |-> usage]}
    ELSE IF LevelQuestions(skill_key, level) = << >>
    THEN {[ret |-> None, idx |-> -1, usage |-> usage]}
    ELSE LET level_questions == LevelQuestions(skill_key, level)
             usage_key == <<skill_key, level>>
             used_indices == usage[usage_key]
             cands == CandidateIndices(level_questions, used_indices, exclude_question)
             hist == HistoryAfterReset(level_questions, used_indices, exclude_question)
         IN  IF cands /= {}
             THEN {[ret |-> level_questions[selected_idx + 1],
                    idx |-> selected_idx,
                    usage |-> [usage EXCEPT ![usage_key] = Append(hist, selected_idx)]]
                   : selected_idx \in cands}
             ELSE {[ret |-> FallbackQuestion(level_questions, exclude_question),
                    idx |-> -1,
                    usage |-> [usage EXCEPT ![usage_key] = hist]]}

EmptyUsage == [k \in UsageKeys |-> << >>]

-----------------------------------------------------------------------------
(* SpecRot: a caller issuing consecutive next calls on one (skill, level) *)

\* the (skill, level) pairs a caller asks for: every pool shape of the bank,
\* a level that is not in an entry, an unknown level and an unknown skill
RotKeys ==
    { <<"python", "beginner">>, <<"python", "intermediate">>,
      <<"python", "advanced">>, <<"javascript", "beginner">>,
      <<"sql", "advanced">>, <<"sql", "beginner">>,
      <<"python", "expert">>, <<"cobol", "intermediate">> }

\* the texts of a pool
PoolTexts(skill_key, level) ==
    {Pool(skill_key, level)[i] : i \in 1..Len(Pool(skill_key, level))}

\* exclude_question arguments: absent, empty, a text of the pool, a foreign text
Excludes(skill_key, level) == {None, "", "Qx"} \cup PoolTexts(skill_key, level)

\* how many calls the model follows on a pool
CallCap(skill_key, level) ==
    IF Len(Pool(skill_key, level)) >= 3 THEN MaxCallsLarge ELSE MaxCalls

RotIdle ==
    [focus |-> <<"", "">>, calls |-> 0, exclude |-> None, ret |-> None,
     idx |-> -1, before |-> EmptyUsage, last |-> None, run |-> 0]

\* run: how many of the latest consecutive calls without exclusion returned
\* the same question (rot.last)
RotRun(exclude_question, ret) ==
    IF Truthy(exclude_question) \/ ret = None THEN 0
    ELSE IF ret = rot.last THEN rot.run + 1 ELSE 1

RotInit ==
    /\ question_usage = EmptyUsage
    /\ \E k \in RotKeys : rot = [RotIdle EXCEPT !.focus = k]
    /\ gen = None
    /\ conc = None
    /\ det = None
    /\ api = None
    /\ judge = None
    /\ parse = None
    /\ inf = None
    /\ flow = None

\* one call self._get_next_question_from_bank(skill, level, exclude)
NextCall ==
    /\ rot.calls < CallCap(rot.focus[1], rot.focus[2])
    /\ \E exclude_question \in Excludes(rot.focus[1], rot.focus[2]) :
       \E out \in get_next_question_from_bank(question_usage, rot.focus[1],
                                              rot.focus[2], exclude_question) :
          /\ question_usage' = out.usage
          /\ rot' = [rot EXCEPT !.calls = @ + 1,
                                !.exclude = exclude_question,
                                !.ret = out.ret,
                                !.idx = out.idx,
                                !.before = question_usage,
                                !.last = IF Truthy(exclude_question) THEN None ELSE out.ret,
                                !.run = RotRun(exclude_question, out.ret)]
    /\ UNCHANGED <<gen, conc, det, api, judge, parse, inf, flow>>

RotNext == NextCall

SpecRot == RotInit /\ [][RotNext]_vars

-----------------------------------------------------------------------------
(* Claims on the rotator, checked under SpecRot *)

RotCalled == rot.calls > 0

RotPool == Pool(rot.focus[1], rot.focus[2])

RotPoolTexts == PoolTexts(rot.focus[1], rot.focus[2])

\* C6: next returns null exactly when the bank has no question for
\* (skillKey, level) - unknown skill, missing level or empty list - and for a
\* non-empty pool it returns a member of that pool, whatever the usage
\* history and the excluded text.
C6_NullIffEmptyPool ==
    RotCalled =>
        /\ (rot.ret = None) <=> (RotPool = << >>)
        /\ RotPool /= << >> => rot.ret \in RotPoolTexts

\* a call on a non-empty pool with a saturated history and an excluded pool text
C6_Witness ==
    /\ RotCalled
    /\ RotPool /= << >>
    /\ Len(rot.before[rot.focus]) >= MAX_REPEATS
    /\ rot.exclude \in RotPoolTexts
    /\ rot.ret \in RotPoolTexts

\* C7: next returns the excluded text only when no question of the pool
\* differs from it, and a singleton pool holding the excluded text returns
\* that text rather than null.
C7_ExcludedOnlyWithoutAlternative ==
    RotCalled =>
        /\ (rot.ret /= None /\ rot.ret = rot.exclude)
              => \A q \in RotPoolTexts : q = rot.exclude
        /\ (Len(RotPool) = 1 /\ RotPool[1] = rot.exclude)
              => rot.ret = rot.exclude

\* the singleton pool was asked to exclude its only question and returned it
C7_Witness ==
    /\ RotCalled
    /\ Len(RotPool) = 1
    /\ RotPool[1] = rot.exclude
    /\ rot.ret = rot.exclude

\* C8: for a pool of 3 or more questions, consecutive calls without exclusion
\* never select the same question more than 4 times in a row.
C8_AtMostFourInARow ==
    Len(RotPool) >= 3 => rot.run <= 4

-----------------------------------------------------------------------------
(* QuestionGenerator: generate_questions_with_ollama and generate_questions *)

\* str.lower() on the strings of the model: display names, completion
\* outputs, resume words and job roles
Lower(str) ==
    CASE str = "Python" -> "python"
      [] str = "SQL" -> "sql"
      [] str = "JavaScript" -> "javascript"
      [] str = "React" -> "react"
      [] str = "HTML" -> "html"
      [] str = "CSS" -> "css"
      [] str = "Node.js" -> "node.js"
      [] str = "Advanced" -> "advanced"
      [] str = "Expert" -> "expert"
      [] str = "Data Science" -> "data science"
      [] str = "Senior Backend Developer" -> "senior backend developer"
      [] str = "Chef" -> "chef"
      [] str = "Design" -> "design"
      [] str = "How would you" -> "how would you"
      [] OTHER -> str

\* str.strip() on the strings a completion can return for "question"
Strip(str) ==
    CASE str = " A2 " -> "A2"
      [] str = "  " -> ""
      [] OTHER -> str

\* A parsed element is a record; kind "dict" is a JSON object with its three
\* fields, any other kind is a value on which item.get raises.
Malformed == [kind |-> "other", skill |-> "", level |-> "", question |-> ""]

\* Optional[List[Dict]]: None, or a list
NoList == [ok |-> FALSE, questions |-> << >>]

SomeList(questions) == [ok |-> TRUE, questions |-> questions]

\* lines 640-645: the bank key whose lowercase form is skill_key, or None
MatchedKey(skill_key) ==
    IF \E qb_skill \in skill_keys : Lower(qb_skill) = skill_key
    THEN CHOOSE qb_skill \in skill_keys : Lower(qb_skill) = skill_key
    ELSE None

\* mutant of NormalizeLevel: the level is kept as the completion gave it
NormalizeLevelKept(level) == level

\* lines 648-650 (and 165-167): an unrecognised level becomes "intermediate"
NormalizeLevel(level) ==
    IF level \notin {"beginner", "intermediate", "advanced"}
    THEN "intermediate"
    ELSE level

\* mutant of KeepsItem: the empty-question test of line 637 is missing
KeepsItemAnyQuestion(item) ==
    /\ MatchedKey(Lower(item.skill)) /= None
    /\ MatchedKey(Lower(item.skill)) \in DOMAIN question_bank_dict

\* lines 633-647: the item survives validation
KeepsItem(item) ==
    /\ Strip(item.question) /= ""
    /\ MatchedKey(Lower(item.skill)) /= None
    /\ MatchedKey(Lower(item.skill)) \in DOMAIN question_bank_dict

\* lines 661-666: the validated question built from an item
ValidatedQuestion(item) ==
    [skill |-> MatchedKey(Lower(item.skill)),
     level |-> NormalizeLevel(Lower(item.level)),
     question |-> Strip(item.question)]

\* the limit on the number of questions (lines 668, 671, 744, 745, 757, 822)
MaxQuestionsOffByOne == 5 + 1

MaxQuestions == 5

\* the number of questions below which the second backfill runs (791, 793)
MinQuestions == 3

\* s[:n]
Prefix(s, n) == IF Len(s) <= n THEN s ELSE SubSeq(s, 1, n)

\* lines 632-669: the validation loop from item i on; None when an item
\* raises (the except clause of line 676 then returns None)
RECURSIVE ValidateFrom(_, _, _)
ValidateFrom(generated_questions, i, validated_questions) ==
    IF i > Len(generated_questions) THEN SomeList(validated_questions)
    ELSE IF generated_questions[i].kind /= "dict" THEN NoList
    ELSE IF ~KeepsItem(generated_questions[i])
    THEN ValidateFrom(generated_questions, i + 1, validated_questions)
    ELSE LET appended == Append(validated_questions,
                                ValidatedQuestion(generated_questions[i]))
         IN  IF Len(appended) >= MaxQuestions
             THEN SomeList(appended)
             ELSE ValidateFrom(generated_questions, i + 1, appended)

\* generate_questions_with_ollama, given what the completion call and
\* _parse_json_from_response produced: kind "error" (ollama.chat raised),
\* "unparseable" (the parser returned None) or "list" (the parsed items)
generate_questions_with_ollama(completion) ==
    IF completion.kind /= "list" THEN NoList
    ELSE IF ~ValidateFrom(completion.items, 1, << >>).ok THEN NoList
    ELSE SomeList(Prefix(ValidateFrom(completion.items, 1, << >>).questions,
                         MaxQuestions))

\* the skills of a list of questions (line 752)
SkillsOf(questions) == {questions[i].skill : i \in 1..Len(questions)}

\* mutant of Pass1Iter: line 788 is missing, the skill is not recorded
Pass1IterNotRecorded(st, skill) ==
    IF Len(st.questions) >= MaxQuestions THEN {st}
    ELSE IF skill.key \in st.skills_with_questions THEN {st}
    ELSE IF skill.key \notin DOMAIN question_bank_dict THEN {st}
    ELSE {IF out.ret /= None /\ out.ret /= ""
          THEN [questions |-> Append(st.questions,
                                     [skill |-> skill.key, level |-> skill.level,
                                      question |-> out.ret]),
                skills_with_questions |-> st.skills_with_questions,
                usage |-> out.usage]
          ELSE [st EXCEPT !.usage = out.usage]
          : out \in get_next_question_from_bank(st.usage, skill.key,
                                                skill.level, None)}

\* lines 756-788: one iteration of the first backfill loop; after the break
\* of line 758 the remaining iterations leave the state alone
Pass1Iter(st, skill) ==
    IF Len(st.questions) >= MaxQuestions THEN {st}
    ELSE IF skill.key \in st.skills_with_questions THEN {st}
    ELSE IF skill.key \notin DOMAIN question_bank_dict THEN {st}
    ELSE {IF out.ret /= None /\ out.ret /= ""
          THEN [questions |-> Append(st.questions,
                                     [skill |-> skill.key, level |-> skill.level,
                                      question |-> out.ret]),
                skills_with_questions |-> st.skills_with_questions \cup {skill.key},
                usage |-> out.usage]
          ELSE [st EXCEPT !.usage = out.usage]
          : out \in get_next_question_from_bank(st.usage, skill.key,
                                                skill.level, None)}

\* mutant of Pass2Iter: a skill that already has a question is not skipped
Pass2IterNoSkip(st, skill) ==
    IF Len(st.questions) >= MinQuestions THEN {st}
    ELSE IF skill.key \notin DOMAIN question_bank_dict THEN {st}
    ELSE {IF out.ret /= None /\ out.ret /= ""
          THEN [questions |-> Append(st.questions,
                                     [skill |-> skill.key, level |-> "intermediate",
                                      question |-> out.ret]),
                skills_with_questions |-> st.skills_with_questions \cup {skill.key},
                usage |-> out.usage]
          ELSE [st EXCEPT !.usage = out.usage]
          : out \in get_next_question_from_bank(st.usage, skill.key,
                                                "intermediate", None)}

\* mutant of Pass2Iter: the second backfill is missing
Pass2IterSkipped(st, skill) == {st}

\* lines 792-820: one iteration of the second backfill loop
Pass2Iter(st, skill) ==
    IF Len(st.questions) >= MinQuestions THEN {st}
    ELSE IF skill.key \notin DOMAIN question_bank_dict THEN {st}
    ELSE IF skill.key \in st.skills_with_questions THEN {st}
    ELSE {IF out.ret /= None /\ out.ret /= ""
          THEN [questions |-> Append(st.questions,
                                     [skill |-> skill.key, level |-> "intermediate",
                                      question |-> out.ret]),
                skills_with_questions |-> st.skills_with_questions \cup {skill.key},
                usage |-> out.usage]
          ELSE [st EXCEPT !.usage = out.usage]
          : out \in get_next_question_from_bank(st.usage, skill.key,
                                                "intermediate", None)}

\* lines 756-788: the first loop from detected skill i on, over every
\* resolution of random.choice
RECURSIVE Pass1From(_, _, _)
Pass1From(sts, detected_skills, i) ==
    IF i > Len(detected_skills) THEN sts
    ELSE Pass1From(UNION {Pass1Iter(st, detected_skills[i]) : st \in sts},
                   detected_skills, i + 1)

\* lines 791-820: the second loop from detected skill i on
RECURSIVE Pass2From(_, _, _)
Pass2From(sts, detected_skills, i) ==
    IF i > Len(detected_skills) THEN sts
    ELSE Pass2From(UNION {Pass2Iter(st, detected_skills[i]) : st \in sts},
                   detected_skills, i + 1)

\* line 742: the AI path is tried
AiAttempted(use_ollama, resume_text) == use_ollama /\ Truthy(resume_text)

\* lines 740-743: ai_questions after the AI attempt ([] when not tried)
AiQuestions(use_ollama, resume_text, completion) ==
    IF AiAttempted(use_ollama, resume_text)
    THEN generate_questions_with_ollama(completion)
    ELSE SomeList(<< >>)

\* The outcomes of one call of generate_questions: the returned list and the
\* usage map afterwards.
generate_questions(usage, detected_skills, use_ollama, resume_text, completion) ==
    LET ai_questions == AiQuestions(use_ollama, resume_text, completion)
        ai_truthy == ai_questions.ok /\ ai_questions.questions /= << >>
    IN  IF /\ AiAttempted(use_ollama, resume_text)
           /\ ai_truthy
           /\ Len(ai_questions.questions) >= MaxQuestions
        THEN {[ret |-> Prefix(ai_questions.questions, MaxQuestions),
               usage |-> usage]}
        ELSE LET questions == IF ai_truthy THEN ai_questions.questions ELSE << >>
                 st0 == [questions |-> questions,
                         skills_with_questions |-> SkillsOf(questions),
                         usage |-> usage]
                 after1 == Pass1From({st0}, detected_skills, 1)
                 after2 == UNION {IF Len(st.questions) < MinQuestions
                                  THEN Pass2From({st}, detected_skills, 1)
                                  ELSE {st} : st \in after1}
             IN  {[ret |-> Prefix(st.questions, MaxQuestions), usage |-> st.usage]
                  : st \in after2}

-----------------------------------------------------------------------------
(* SpecGen: one call of generate_questions on a prior usage history *)

\* detected skills as detect_skills hands them over (key and level)
Skill(key, level) == [key |-> key, level |-> level]

\* a pair pool, a singleton under a second level of the same key, a singleton,
\* an empty list with an intermediate list beside it, a missing level with an
\* intermediate list beside it, a key with no list at its level nor at
\* intermediate, a key that is not in the bank
DetectedEntries ==
    { Skill("python", "intermediate"), Skill("python", "beginner"),
      Skill("sql", "intermediate"), Skill("sql", "advanced"),
      Skill("javascript", "advanced"), Skill("react", "beginner"),
      Skill("cobol", "intermediate") }

\* the i-th entry of a list of bank skills, each with a question at its level
LongEntry(i) ==
    LET k == ((i - 1) % Len(question_bank)) + 1
    IN  Skill(question_bank[k].skill,
              IF "intermediate" \in DOMAIN question_bank[k].levels
              THEN "intermediate" ELSE "advanced")

SeqsUpTo(S, n) == UNION {[1..m -> S] : m \in 0..n}

DetectedLists ==
    SeqsUpTo(DetectedEntries, MaxDetected)
    \cup {[i \in 1..n |-> LongEntry(i)] : n \in (MaxDetected + 1)..MaxDetectedLong}

Item(skill, level, question) ==
    [kind |-> "dict", skill |-> skill, level |-> level, question |-> question]

\* what a completion returns: valid items (with upper case, an unknown level,
\* padding), an unknown skill, a blank question, a non-object
RawItems ==
    { Item("Python", "Advanced", "A1"), Item("sql", "expert", " A2 "),
      Item("cobol", "beginner", "A3"), Item("sql", "beginner", "  "),
      Malformed }

\* the i-th item of a long completion output
LongItem(i) ==
    CASE i % 5 = 1 -> Item("Python", "Advanced", "A1")
      [] i % 5 = 2 -> Item("cobol", "beginner", "A3")
      [] i % 5 = 3 -> Item("sql", "expert", " A2 ")
      [] i % 5 = 4 -> Item("sql", "beginner", "  ")
      [] OTHER -> Item("javascript", "beginner", "A4")

Completions ==
    { [kind |-> "error", items |-> << >>],
      [kind |-> "unparseable", items |-> << >>] }
    \cup {[kind |-> "list", items |-> items] : items \in SeqsUpTo(RawItems, MaxAi)}
    \cup {[kind |-> "list", items |-> [i \in 1..n |-> LongItem(i)]]
          : n \in (MaxAi + 1)..MaxAiLong}
    \cup {[kind |-> "list", items |-> [i \in 1..MaxAiLong |->
                 IF i = n THEN Malformed ELSE LongItem(i)]] : n \in {3, MaxAiLong}}

\* a history of n selections of index 0
RECURSIVE Zeros(_)
Zeros(n) == IF n = 0 THEN << >> ELSE Append(Zeros(n - 1), 0)

\* a history of MAX_REPEATS selections of index 0
Saturated == Zeros(MAX_REPEATS)

\* usage histories earlier calls leave behind
PriorUsages ==
    { EmptyUsage,
      [EmptyUsage EXCEPT ![<<"sql", "intermediate">>] = Saturated],
      [EmptyUsage EXCEPT ![<<"python", "intermediate">>] = Saturated],
      [EmptyUsage EXCEPT ![<<"python", "intermediate">>] = <<0, 1, 1>>] }

\* the inputs of a call; the completion outcome only matters when the AI
\* path is tried
GenInputs ==
    {[use_ollama |-> u, resume_text |-> r, completion |-> c]
        : u \in BOOLEAN, r \in {None, "", "resume"},
          c \in {[kind |-> "error", items |-> << >>]}}
    \cup {[use_ollama |-> TRUE, resume_text |-> "resume", completion |-> c]
        : c \in Completions}

GenIdle ==
    [called |-> FALSE, detected_skills |-> << >>, use_ollama |-> FALSE,
     resume_text |-> None, completion |-> [kind |-> "error", items |-> << >>],
     before |-> EmptyUsage, ret |-> << >>]

GenInit ==
    /\ question_usage \in PriorUsages
    /\ gen = GenIdle
    /\ rot = None
    /\ conc = None
    /\ det = None
    /\ api = None
    /\ judge = None
    /\ parse = None
    /\ inf = None
    /\ flow = None

\* one call self.generate_questions(detected_skills, resume_text)
GenerateQuestions ==
    /\ ~gen.called
    /\ \E detected_skills \in DetectedLists, in \in GenInputs :
       \E out \in generate_questions(question_usage, detected_skills,
                                     in.use_ollama, in.resume_text, in.completion) :
          /\ question_usage' = out.usage
          /\ gen' = [called |-> TRUE, detected_skills |-> detected_skills,
                     use_ollama |-> in.use_ollama, resume_text |-> in.resume_text,
                     completion |-> in.completion, before |-> question_usage,
                     ret |-> out.ret]
    /\ UNCHANGED <<rot, conc, det, api, judge, parse, inf, flow>>

GenNext == GenerateQuestions

SpecGen == GenInit /\ [][GenNext]_vars

-----------------------------------------------------------------------------
(* Claims on generate_questions, checked under SpecGen *)

Min(a, b) == IF a <= b THEN a ELSE b

GenAiTried == AiAttempted(gen.use_ollama, gen.resume_text)

\* C1: whatever the detected skills, the completion outcome and the prior
\* usage history, generate_questions returns at most 5 questions.
C1_AtMostFive ==
    gen.called => Len(gen.ret) <= 5

\* more than 5 detected skills were served from the bank and 5 came back
C1_Witness ==
    /\ gen.called
    /\ ~GenAiTried
    /\ Len(gen.detected_skills) > 5
    /\ Len(gen.ret) = 5

\* the detected skills with a non-empty bank list at their level
C2_SkillsWithPool ==
    {i \in 1..Len(gen.detected_skills) :
        Pool(gen.detected_skills[i].key, gen.detected_skills[i].level) /= << >>}

\* C2 as stated: whenever at least one detected skill has a non-empty
\* question list in the bank, at least 3 questions are returned.
C2_AtLeastThree ==
    (gen.called /\ C2_SkillsWithPool /= {}) => Len(gen.ret) >= 3

\* the distinct detected keys with a non-empty bank list at a detected level
\* or at "intermediate"
C2_ServedKeys ==
    {gen.detected_skills[i].key : i \in
        {j \in 1..Len(gen.detected_skills) :
            \/ Pool(gen.detected_skills[j].key, gen.detected_skills[j].level) /= << >>
            \/ Pool(gen.detected_skills[j].key, "intermediate") /= << >>}}

\* C2 amended: generate_questions returns at least min(3, k) questions, k
\* being the number of distinct detected skill keys that have a non-empty
\* bank list at a detected level or at "intermediate".
C2_AtLeastMinThreeServed ==
    gen.called => Len(gen.ret) >= Min(3, Cardinality(C2_ServedKeys))

\* three served keys, two of them only through the "intermediate" backfill
C2_Witness ==
    /\ gen.called
    /\ ~GenAiTried
    /\ Cardinality(C2_ServedKeys) = 3
    /\ Cardinality(C2_SkillsWithPool) = 1
    /\ Len(gen.ret) = 3

\* the detected keys are pairwise distinct
C3_DistinctKeys ==
    \A i, j \in 1..Len(gen.detected_skills) :
        gen.detected_skills[i].key = gen.detected_skills[j].key => i = j

C3_Pre ==
    /\ gen.called
    /\ ~GenAiTried
    /\ Len(gen.detected_skills) <= 5
    /\ C3_DistinctKeys
    /\ C2_SkillsWithPool = 1..Len(gen.detected_skills)

\* C3: with the AI path disabled and at most 5 detected skills with distinct
\* keys, each with a non-empty bank list at its level, the result holds
\* exactly one question per detected skill, in detected order, each text
\* taken from that skill's list for that level.
C3_OnePerSkillInOrder ==
    C3_Pre =>
        /\ Len(gen.ret) = Len(gen.detected_skills)
        /\ \A i \in 1..Len(gen.detected_skills) :
              /\ gen.ret[i].skill = gen.detected_skills[i].key
              /\ gen.ret[i].level = gen.detected_skills[i].level
              /\ gen.ret[i].question \in
                    PoolTexts(gen.detected_skills[i].key, gen.detected_skills[i].level)

\* the two-skill call of the end-to-end example, served from the bank
C3_Witness ==
    /\ C3_Pre
    /\ gen.detected_skills = <<Skill("python", "intermediate"),
                               Skill("sql", "intermediate")>>
    /\ Len(gen.ret) = 2

\* C4: an empty detected-skills list gives an empty result, with the AI path
\* enabled or disabled and whatever the completion returns.
C4_EmptyDetectedGivesEmpty ==
    (gen.called /\ gen.detected_skills = << >>) => gen.ret = << >>

\* a parsed item that is an object naming a bank skill, with a non-blank question
C5_IsValid(item) ==
    /\ item.kind = "dict"
    /\ Lower(item.skill) \in skill_keys
    /\ Strip(item.question) /= ""

C5_Question(item) ==
    [skill |-> Lower(item.skill),
     level |-> IF Lower(item.level) \in Levels THEN Lower(item.level)
               ELSE "intermediate",
     question |-> Strip(item.question)]

C5_ValidItems == SelectSeq(gen.completion.items, C5_IsValid)

\* the positions at which the fifth valid item of the completion stands
C5_FifthAt ==
    {n \in 1..Len(gen.completion.items) :
        /\ C5_IsValid(gen.completion.items[n])
        /\ Len(SelectSeq(SubSeq(gen.completion.items, 1, n), C5_IsValid)) = 5}

\* the AI path ran and its output holds 5 valid questions, with nothing but
\* objects before the fifth
C5_Pre ==
    /\ gen.called
    /\ GenAiTried
    /\ gen.completion.kind = "list"
    /\ \E n \in C5_FifthAt :
          \A j \in 1..n : gen.completion.items[j].kind = "dict"

\* C5: when the AI path yields 5 or more valid questions, the result is
\* exactly the first 5 of them in AI order, and nothing is taken from the bank.
C5_FirstFiveAiQuestions ==
    C5_Pre =>
        /\ gen.ret = [i \in 1..5 |-> C5_Question(C5_ValidItems[i])]
        /\ question_usage = gen.before

\* a completion with more than 5 valid items, invalid ones in between, and
\* detected skills the bank could have served
C5_Witness ==
    /\ C5_Pre
    /\ Len(C5_ValidItems) > 5
    /\ Len(gen.completion.items) > Len(C5_ValidItems)
    /\ C2_SkillsWithPool /= {}

-----------------------------------------------------------------------------
(* SpecConc: two requests whose handlers reach _get_next_question_from_bank *)
(* on the same (skill, level), followed statement by statement.  Lists are  *)
(* objects: question_usage[usage_key] is a reference (conc.ref) into        *)
(* conc.heap, and used_indices (line 698) is a copy of that reference.      *)

Requests == {1, 2}

\* the pools the two requests meet on: a singleton and a pair
ConcKeys == { <<"sql", "intermediate">>, <<"python", "intermediate">> }

\* the history earlier requests left for the key
ConcPriorHistories ==
    {Zeros(n) : n \in {0, MAX_REPEATS - 1, MAX_REPEATS}}

ConcPool == Pool(conc.key[1], conc.key[2])

\* mutant of Runnable: the handlers are plain functions run by the thread
\* pool, so any request may take a step at any time
RunnableThreaded(r) == TRUE

\* main.py 156-172: refresh_question is a coroutine that calls
\* get_fresh_question without awaiting, so the event loop runs the handler of
\* one request from its first statement to its return before it starts or
\* resumes another; conc.loop is the request the loop is running (0: none)
Runnable(r) == conc.loop = 0 \/ conc.loop = r

ConcRequestIdle ==
    [pc |-> "pending", exclude |-> None, used |-> 0, available |-> {}, ret |-> None]

ConcInit ==
    /\ \E k \in ConcKeys, h \in ConcPriorHistories :
          /\ question_usage = [EmptyUsage EXCEPT ![k] = h]
          /\ conc = [key |-> k, initial |-> h, loop |-> 0,
                     heap |-> <<h>>, ref |-> 1,
                     req |-> [r \in Requests |-> ConcRequestIdle]]
    /\ rot = None
    /\ gen = None
    /\ det = None
    /\ api = None
    /\ judge = None
    /\ parse = None
    /\ inf = None
    /\ flow = None

\* the usage map seen through the reference of the key
ConcUsage(heap, ref) == [question_usage EXCEPT ![conc.key] = heap[ref]]

\* the event loop starts the handler of request r (main.py 157-172, then
\* get_fresh_question 846 with the AI path off)
Dispatch(r) ==
    /\ conc.req[r].pc = "pending"
    /\ Runnable(r)
    /\ \E exclude_question \in Excludes(conc.key[1], conc.key[2]) :
          conc' = [conc EXCEPT !.loop = r,
                               !.req[r].pc = "read",
                               !.req[r].exclude = exclude_question]
    /\ UNCHANGED <<question_usage, rot, gen, det, api, judge, parse, inf, flow>>

\* lines 696-698: used_indices = self.question_usage[usage_key]
ReadUsage(r) ==
    /\ conc.req[r].pc = "read"
    /\ Runnable(r)
    /\ conc' = [conc EXCEPT !.req[r].pc = "filter",
                            !.req[r].used = conc.ref]
    /\ UNCHANGED <<question_usage, rot, gen, det, api, judge, parse, inf, flow>>

\* lines 702-714: the filter over the list used_indices refers to
Filter(r) ==
    /\ conc.req[r].pc = "filter"
    /\ Runnable(r)
    /\ conc' = [conc EXCEPT !.req[r].pc = "reset",
                            !.req[r].available =
                                AvailableIndices(ConcPool, conc.heap[conc.req[r].used],
                                                 conc.req[r].exclude)]
    /\ UNCHANGED <<question_usage, rot, gen, det, api, judge, parse, inf, flow>>

\* lines 716-724: the reset branch; line 724 binds the key to a new list
ResetStep(r) ==
    /\ conc.req[r].pc = "reset"
    /\ Runnable(r)
    /\ IF conc.req[r].available = {}
       THEN IF Len(conc.heap[conc.req[r].used]) >= MAX_REPEATS
            THEN /\ conc' = [conc EXCEPT !.req[r].pc = "select",
                                !.req[r].available =
                                    ResetIndices(ConcPool, conc.req[r].exclude),
                                !.heap = Append(conc.heap, << >>),
                                !.ref = Len(conc.heap) + 1]
                 /\ question_usage' =
                       ConcUsage(Append(conc.heap, << >>), Len(conc.heap) + 1)
            ELSE /\ conc' = [conc EXCEPT !.req[r].pc = "select",
                                !.req[r].available =
                                    ResetIndices(ConcPool, conc.req[r].exclude)]
                 /\ UNCHANGED question_usage
       ELSE /\ conc' = [conc EXCEPT !.req[r].pc = "select"]
            /\ UNCHANGED question_usage
    /\ UNCHANGED <<rot, gen, det, api, judge, parse, inf, flow>>

\* lines 726-736: random.choice, the append to the list the key is bound to
\* now, and the fallback return
Select(r) ==
    /\ conc.req[r].pc = "select"
    /\ Runnable(r)
    /\ IF conc.req[r].available /= {}
       THEN \E selected_idx \in conc.req[r].available :
               LET heap == [conc.heap EXCEPT ![conc.ref] = Append(@, selected_idx)]
               IN  /\ conc' = [conc EXCEPT !.req[r].pc = "return",
                                           !.req[r].ret = ConcPool[selected_idx + 1],
                                           !.heap = heap]
                   /\ question_usage' = ConcUsage(heap, conc.ref)
       ELSE /\ conc' = [conc EXCEPT !.req[r].pc = "return",
                                    !.req[r].ret =
                                        FallbackQuestion(ConcPool, conc.req[r].exclude)]
            /\ UNCHANGED question_usage
    /\ UNCHANGED <<rot, gen, det, api, judge, parse, inf, flow>>

\* the handler returns its response and the event loop is free again
Finish(r) ==
    /\ conc.req[r].pc = "return"
    /\ Runnable(r)
    /\ conc' = [conc EXCEPT !.req[r].pc = "done", !.loop = 0]
    /\ UNCHANGED <<question_usage, rot, gen, det, api, judge, parse, inf, flow>>

ConcNext ==
    \E r \in Requests :
        \/ Dispatch(r)
        \/ ReadUsage(r)
        \/ Filter(r)
        \/ ResetStep(r)
        \/ Select(r)
        \/ Finish(r)

SpecConc == ConcInit /\ [][ConcNext]_vars

-----------------------------------------------------------------------------
(* Claim on concurrent requests, checked under SpecConc *)

ConcBothDone == \A r \in Requests : conc.req[r].pc = "done"

\* the histories the two calls leave when one runs wholly before the other
C9_SerialHistories ==
    LET u0 == [question_usage EXCEPT ![conc.key] = conc.initial]
        After(first, second) ==
            {o2.usage[conc.key] :
                o2 \in UNION {get_next_question_from_bank(
                                  o1.usage, conc.key[1], conc.key[2],
                                  conc.req[second].exclude)
                              : o1 \in get_next_question_from_bank(
                                  u0, conc.key[1], conc.key[2],
                                  conc.req[first].exclude)}}
    IN  After(1, 2) \cup After(2, 1)

\* C9: when two requests run next on the same (skillKey, level), the usage
\* history they leave is one that a serial order of the two calls produces:
\* no recorded selection is lost.
C9_SerializedHistory ==
    ConcBothDone => question_usage[conc.key] \in C9_SerialHistories

\* both requests finished on a saturated singleton pool: the first reset the
\* history and both selections are recorded
C9_Witness ==
    /\ ConcBothDone
    /\ Len(conc.initial) = MAX_REPEATS
    /\ Len(ConcPool) = 1
    /\ question_usage[conc.key] = <<0, 0>>

-----------------------------------------------------------------------------
(* SkillVocabulary and SkillDetector *)

\* dict[k] = v on a dict kept as its list of (variant, key) items in
\* insertion order: an existing variant keeps its place and takes the new key
DictPut(d, variant, key) ==
    IF \E i \in 1..Len(d) : d[i].variant = variant
    THEN [i \in 1..Len(d) |->
             IF d[i].variant = variant THEN [variant |-> variant, key |-> key]
             ELSE d[i]]
    ELSE Append(d, [variant |-> variant, key |-> key])

\* mutant of VocabPut: a synonym is written as its own canonical key
VocabPutSynonymAsKey(d, entry) ==
    LET base == DictPut(DictPut(d, Lower(entry.skill), entry.skill),
                        Lower(entry.displayName), entry.skill)
    IN  IF entry.skill = "python"
        THEN DictPut(DictPut(base, "python3", "python3"), "python 3", "python 3")
        ELSE IF entry.skill = "javascript"
        THEN DictPut(DictPut(base, "js", "js"), "node", "node")
        ELSE IF entry.skill = "nodejs"
        THEN DictPut(DictPut(base, "node.js", "node.js"), "node", "node")
        ELSE base

\* lines 28-43: the entries one bank entry writes into skill_vocab
VocabPut(d, entry) ==
    LET base == DictPut(DictPut(d, Lower(entry.skill), entry.skill),
                        Lower(entry.displayName), entry.skill)
    IN  IF entry.skill = "python"
        THEN DictPut(DictPut(base, "python3", entry.skill), "python 3", entry.skill)
        ELSE IF entry.skill = "javascript"
        THEN DictPut(DictPut(base, "js", entry.skill), "node", entry.skill)
        ELSE IF entry.skill = "nodejs"
        THEN DictPut(DictPut(base, "node.js", entry.skill), "node", entry.skill)
        ELSE base

\* lines 25-43: skill_vocab after the first i bank entries
RECURSIVE VocabFrom(_)
VocabFrom(i) ==
    IF i = 0 THEN << >> ELSE VocabPut(VocabFrom(i - 1), question_bank[i])

\* self.skill_vocab
skill_vocab == VocabFrom(Len(question_bank))

\* self.job_role_priorities, in insertion order
job_role_priorities ==
    << [role |-> "data science", skills |-> <<"python", "sql", "javascript">>],
       [role |-> "software engineer",
        skills |-> <<"python", "javascript", "react", "nodejs">>],
       [role |-> "web developer", skills |-> <<"html", "css", "javascript", "react">>],
       [role |-> "backend developer", skills |-> <<"python", "nodejs", "sql">>],
       [role |-> "frontend developer",
        skills |-> <<"html", "css", "javascript", "react">>] >>

\* A resume text is a list of words separated by single blanks.
\* normalize_text (lines 85-90): every word in lower case
normalize_text(text) == [i \in 1..Len(text) |-> Lower(text[i])]

\* needle occurs inside the lower-case word
WordContains(word, needle) ==
    \/ word = needle
    \/ <<word, needle>> \in
          { <<"python3", "python">>, <<"node.js", "node">>, <<"node.js", "js">>,
            <<"nodejs", "node">>, <<"nodejs", "js">> }

\* line 214 (and 333-349): needle in text, on a lower-case text
InText(needle, words) ==
    \/ \E i \in 1..Len(words) : WordContains(words[i], needle)
    \/ /\ needle = "python 3"
       /\ \E i \in 1..(Len(words) - 1) : words[i] = "python" /\ words[i + 1] = "3"

\* needle occurs in the lower-case word between word boundaries
WordHasToken(word, needle) ==
    \/ word = needle
    \/ <<word, needle>> \in {<<"node.js", "node">>, <<"node.js", "js">>}

\* lines 254-255 and 316-317: re.finditer(rf'\b{re.escape(needle)}\b', text.lower())
\* finds a match
BoundaryMatch(needle, words) ==
    \/ \E i \in 1..Len(words) : WordHasToken(words[i], needle)
    \/ /\ needle = "python 3"
       /\ \E i \in 1..(Len(words) - 1) : words[i] = "python" /\ words[i + 1] = "3"

\* role in job_role_lower (lines 196 and 236)
RoleIn(role, job_role_lower) ==
    \/ role = job_role_lower
    \/ <<job_role_lower, role>> \in
          {<<"senior backend developer", "backend developer">>}

\* a detected skill: AI entries carry a context and no variant, fallback
\* entries a variant and no context (and no level until it is inferred)
Detected(key, name, level, variant, context) ==
    [key |-> key, name |-> name, level |-> level, variant |-> variant,
     context |-> context]

\* Optional[List[Dict]] of detect_skills_with_ollama, with the exception it
\* lets through (none: both except clauses return None)
NoDetected == [raised |-> FALSE, ok |-> FALSE, skills |-> << >>]

\* lines 153-175: the validation loop from item i on; raises on a non-object
RECURSIVE DetectFrom(_, _, _)
DetectFrom(detected_skills_data, i, detected) ==
    IF i > Len(detected_skills_data)
    THEN [raised |-> FALSE, ok |-> TRUE, skills |-> detected]
    ELSE IF detected_skills_data[i].kind /= "dict" THEN NoDetected
    ELSE LET item == detected_skills_data[i]
             matched_key == MatchedKey(Lower(item.skill))
         IN  IF matched_key /= None /\ matched_key \in DOMAIN question_bank_dict
             THEN DetectFrom(detected_skills_data, i + 1,
                      Append(detected,
                             Detected(matched_key,
                                      question_bank_dict[matched_key].displayName,
                                      NormalizeLevel(Lower(item.level)), None,
                                      item.context)))
             ELSE DetectFrom(detected_skills_data, i + 1, detected)

\* detect_skills_with_ollama, given the outcome of ollama.chat and json.loads:
\* kind "error" (the call raised), "unparseable" (empty text or not JSON) or
\* "list" (the parsed array)
detect_skills_with_ollama(completion) ==
    IF completion.kind /= "list" THEN NoDetected
    ELSE DetectFrom(completion.items, 1, << >>)

\* the index of the first role of job_role_priorities found in job_role, or 0
MatchedRole(job_role) ==
    IF Truthy(job_role) /\ \E r \in 1..Len(job_role_priorities) :
                              RoleIn(job_role_priorities[r].role, Lower(job_role))
    THEN CHOOSE r \in 1..Len(job_role_priorities) :
            /\ RoleIn(job_role_priorities[r].role, Lower(job_role))
            /\ \A q \in 1..(r - 1) :
                  ~RoleIn(job_role_priorities[q].role, Lower(job_role))
    ELSE 0

\* x in list
InList(x, list) == \E i \in 1..Len(list) : list[i] = x

\* lines 199-201 / 239-241: the inner loop for one priority skill
RECURSIVE PrioritizeSkill(_, _, _, _)
PrioritizeSkill(prioritized, priority_skill, detected, i) ==
    IF i > Len(detected) THEN prioritized
    ELSE IF detected[i].key = priority_skill /\ ~InList(detected[i], prioritized)
    THEN PrioritizeSkill(Append(prioritized, detected[i]), priority_skill, detected, i + 1)
    ELSE PrioritizeSkill(prioritized, priority_skill, detected, i + 1)

\* lines 198-201 / 238-241: the loop over the priority skills
RECURSIVE PrioritizeFrom(_, _, _, _)
PrioritizeFrom(prioritized, skills, p, detected) ==
    IF p > Len(skills) THEN prioritized
    ELSE PrioritizeFrom(PrioritizeSkill(prioritized, skills[p], detected, 1),
                        skills, p + 1, detected)

\* lines 202-204 / 242-244: the remaining skills in their order
RECURSIVE AppendRest(_, _, _)
AppendRest(prioritized, detected, i) ==
    IF i > Len(detected) THEN prioritized
    ELSE IF ~InList(detected[i], prioritized)
    THEN AppendRest(Append(prioritized, detected[i]), detected, i + 1)
    ELSE AppendRest(prioritized, detected, i + 1)

\* lines 193-206 and 233-246: job-role prioritisation
Prioritize(detected, job_role) ==
    IF MatchedRole(job_role) = 0 THEN detected
    ELSE AppendRest(PrioritizeFrom(<< >>, job_role_priorities[MatchedRole(job_role)].skills,
                                   1, detected),
                    detected, 1)

\* str.capitalize() on a canonical key
Capitalize(s) ==
    CASE s = "python" -> "Python"
      [] s = "python3" -> "Python3"
      [] s = "python 3" -> "Python 3"
      [] s = "sql" -> "Sql"
      [] s = "javascript" -> "Javascript"
      [] s = "js" -> "Js"
      [] s = "node" -> "Node"
      [] s = "node.js" -> "Node.js"
      [] s = "nodejs" -> "Nodejs"
      [] s = "react" -> "React"
      [] s = "html" -> "Html"
      [] s = "css" -> "Css"
      [] OTHER -> s

\* lines 218-221: the display name of the bank entry, else the capitalised key
DisplayName(canonical_key) ==
    IF canonical_key \in DOMAIN question_bank_dict
    THEN question_bank_dict[canonical_key].displayName
    ELSE Capitalize(canonical_key)

\* mutant of ScanVocab: a key already detected is appended again
RECURSIVE ScanVocabNoDedup(_, _, _)
ScanVocabNoDedup(normalized_text, v, detected) ==
    IF v > Len(skill_vocab) THEN detected
    ELSE IF InText(skill_vocab[v].variant, normalized_text)
    THEN ScanVocabNoDedup(normalized_text, v + 1,
             Append(detected,
                    Detected(skill_vocab[v].key, DisplayName(skill_vocab[v].key),
                             None, skill_vocab[v].variant, None)))
    ELSE ScanVocabNoDedup(normalized_text, v + 1, detected)

\* lines 213-226: the vocabulary scan from entry v on
RECURSIVE ScanVocab(_, _, _)
ScanVocab(normalized_text, v, detected) ==
    IF v > Len(skill_vocab) THEN detected
    ELSE IF /\ InText(skill_vocab[v].variant, normalized_text)
            /\ ~\E i \in 1..Len(detected) : detected[i].key = skill_vocab[v].key
    THEN ScanVocab(normalized_text, v + 1,
             Append(detected,
                    Detected(skill_vocab[v].key, DisplayName(skill_vocab[v].key),
                             None, skill_vocab[v].variant, None)))
    ELSE ScanVocab(normalized_text, v + 1, detected)

advanced_keywords ==
    {"advanced", "expert", "lead", "senior", "5+ years", "5 years",
     "extensive", "deep", "mastery", "proficient in", "experienced with"}

beginner_keywords ==
    {"beginner", "familiar", "some experience", "basic", "learning",
     "introduction", "introductory", "novice"}

\* lines 315-353: keyword inference; the texts of the model are shorter than
\* the 100-character window, so the context of a match is the whole text
KeywordLevel(text, variant) ==
    IF ~BoundaryMatch(variant, normalize_text(text)) THEN "intermediate"
    ELSE IF \E kw \in advanced_keywords : InText(kw, normalize_text(text))
    THEN "advanced"
    ELSE IF \E kw \in beginner_keywords : InText(kw, normalize_text(text))
    THEN "beginner"
    ELSE "intermediate"

\* mutant of infer_skill_level_with_ollama: an unrecognised answer gives None
InferWithOllamaStrict(text, skill_key, completion) ==
    IF ~BoundaryMatch(skill_key, normalize_text(text)) THEN "intermediate"
    ELSE IF completion.kind = "error" THEN None
    ELSE IF Lower(Strip(completion.content)) \in {"beginner", "intermediate", "advanced"}
    THEN Lower(Strip(completion.content))
    ELSE None

\* infer_skill_level_with_ollama (lines 250-305), given the outcome of the
\* completion call: kind "error", or kind "text" with the content
infer_skill_level_with_ollama(text, skill_key, completion) ==
    IF ~BoundaryMatch(skill_key, normalize_text(text)) THEN "intermediate"
    ELSE IF completion.kind = "error" THEN None
    ELSE IF Lower(Strip(completion.content)) \in {"beginner", "intermediate", "advanced"}
    THEN Lower(Strip(completion.content))
    ELSE "intermediate"

\* infer_skill_level (lines 307-353)
infer_skill_level(text, skill_key, variant, use_ollama, completion) ==
    IF use_ollama /\ Truthy(infer_skill_level_with_ollama(text, skill_key, completion))
    THEN infer_skill_level_with_ollama(text, skill_key, completion)
    ELSE KeywordLevel(text, variant)

\* what the level completion returns
LevelCompletions ==
    { [kind |-> "error", content |-> ""],
      [kind |-> "text", content |-> "Advanced"],
      [kind |-> "text", content |-> "it depends"] }

\* lines 229-230: the levels of the detected skills from skill i on, over
\* every outcome of the level completions
RECURSIVE InferLevels(_, _, _, _)
InferLevels(lists, text, use_ollama, i) ==
    IF \A detected \in lists : i > Len(detected) THEN lists
    ELSE InferLevels(
            {[detected EXCEPT ![i].level =
                 infer_skill_level(text, detected[i].key, detected[i].variant,
                                   use_ollama, completion)]
             : detected \in lists,
               completion \in IF use_ollama THEN LevelCompletions
                              ELSE {[kind |-> "error", content |-> ""]}},
            text, use_ollama, i + 1)

\* mutant of AiResultUsable: the result is tested against None only
AiResultNotNone(ai_detected) == ai_detected.ok

\* line 191: if ai_detected
AiResultUsable(ai_detected) == ai_detected.ok /\ ai_detected.skills /= << >>

\* The outcomes of one call of detect_skills: the branch that produced the
\* result, the list before the job-role step (detected), the result, and
\* whether an exception reached the caller.
detect_skills(text, job_role, use_ollama, completion) ==
    LET ai_detected == IF use_ollama THEN detect_skills_with_ollama(completion)
                       ELSE NoDetected
    IN  IF use_ollama /\ ai_detected.raised
        THEN {[path |-> "AI_ATTEMPT", raised |-> TRUE, detected |-> << >>,
               ret |-> << >>]}
        ELSE IF use_ollama /\ AiResultUsable(ai_detected)
        THEN {[path |-> "AI_RESULT", raised |-> FALSE,
               detected |-> ai_detected.skills,
               ret |-> Prioritize(ai_detected.skills, job_role)]}
        ELSE {[path |-> "FALLBACK_RESULT", raised |-> FALSE,
               detected |-> detected,
               ret |-> Prioritize(detected, job_role)]
              : detected \in InferLevels({ScanVocab(normalize_text(text), 1, << >>)},
                                         text, use_ollama, 1)}

-----------------------------------------------------------------------------
(* SpecDet: one call of detect_skills *)

\* the words of a resume text
TextWords ==
    {"Python", "python3", "3", "SQL", "Node.js", "nodejs", "node", "Expert",
     "familiar"}

Texts == SeqsUpTo(TextWords, MaxWords)

JobRoles == {None, "", "Data Science", "Senior Backend Developer", "Chef"}

DetectItem(skill, level, context) ==
    [kind |-> "dict", skill |-> skill, level |-> level, context |-> context]

\* what the detection completion returns: valid items (upper case, unknown
\* level, two contexts), an unknown skill, a non-object
RawDetectItems ==
    { DetectItem("Python", "Expert", "c1"), DetectItem("sql", "advanced", "c1"),
      DetectItem("sql", "advanced", "c2"), DetectItem("cobol", "beginner", "c1"),
      Malformed }

DetectCompletions ==
    { [kind |-> "error", items |-> << >>],
      [kind |-> "unparseable", items |-> << >>] }
    \cup {[kind |-> "list", items |-> items] : items \in SeqsUpTo(RawDetectItems, MaxAi)}

\* the inputs of a call; the completion outcome only matters with use_ollama
DetInputs ==
    {[use_ollama |-> FALSE, completion |-> [kind |-> "error", items |-> << >>]]}
    \cup {[use_ollama |-> TRUE, completion |-> c] : c \in DetectCompletions}

DetIdle ==
    [called |-> FALSE, text |-> << >>, job_role |-> None, use_ollama |-> FALSE,
     completion |-> [kind |-> "error", items |-> << >>],
     path |-> "AI_ATTEMPT", raised |-> FALSE, detected |-> << >>, ret |-> << >>]

DetInit ==
    /\ question_usage = EmptyUsage
    /\ det = DetIdle
    /\ rot = None
    /\ gen = None
    /\ conc = None
    /\ api = None
    /\ judge = None
    /\ parse = None
    /\ inf = None
    /\ flow = None

\* one call self.detect_skills(text, job_role)
DetectSkills ==
    /\ ~det.called
    /\ \E text \in Texts, job_role \in JobRoles, in \in DetInputs :
       \E out \in detect_skills(text, job_role, in.use_ollama, in.completion) :
          det' = [called |-> TRUE, text |-> text, job_role |-> job_role,
                  use_ollama |-> in.use_ollama, completion |-> in.completion,
                  path |-> out.path, raised |-> out.raised,
                  detected |-> out.detected, ret |-> out.ret]
    /\ UNCHANGED <<question_usage, rot, gen, conc, api, judge, parse, inf, flow>>

DetNext == DetectSkills

SpecDet == DetInit /\ [][DetNext]_vars

-----------------------------------------------------------------------------
(* Claim on detect_skills, checked under SpecDet *)

\* the AI attempt failed: the call raised, the response was empty or not
\* JSON, an element was not an object, or no element named a bank skill
C10_AiFailed ==
    /\ det.use_ollama
    /\ \/ det.completion.kind \in {"error", "unparseable"}
       \/ \E i \in 1..Len(det.completion.items) :
             det.completion.items[i].kind /= "dict"
       \/ \A i \in 1..Len(det.completion.items) :
             Lower(det.completion.items[i].skill) \notin skill_keys

\* the keys the vocabulary finds in the text
C10_VocabularyKeys ==
    {skill_vocab[v].key : v \in
        {w \in 1..Len(skill_vocab) :
            InText(skill_vocab[w].variant, normalize_text(det.text))}}

\* C10: when the AI attempt of detect_skills ends in a completion error, an
\* empty or unparseable response or no entry matching a bank key, the call
\* takes the fallback branch, returns the vocabulary matches of the text and
\* raises nothing.
C10_FailsSoftToFallback ==
    (det.called /\ C10_AiFailed) =>
        /\ det.path = "FALLBACK_RESULT"
        /\ ~det.raised
        /\ {det.ret[i].key : i \in 1..Len(det.ret)} = C10_VocabularyKeys
        /\ \A i \in 1..Len(det.ret) :
              /\ det.ret[i].variant /= None
              /\ InText(det.ret[i].variant, normalize_text(det.text))
              /\ det.ret[i].level \in Levels

\* the completion answered with a list naming no bank skill, and the
\* vocabulary found two skills
C10_Witness ==
    /\ det.called
    /\ C10_AiFailed
    /\ det.completion.kind = "list"
    /\ Len(det.completion.items) > 0
    /\ det.path = "FALLBACK_RESULT"
    /\ Len(det.ret) >= 2

-----------------------------------------------------------------------------
(* Further claims on detect_skills, checked under SpecDet *)

\* the skillKeys of the question bank
C11_BankKeys == {question_bank[i].skill : i \in 1..Len(question_bank)}

\* C11: every skill that detect_skills returns, on the AI branch and on the
\* fallback branch, after the job-role step, has a key that is a skillKey of
\* the question bank; an AI name matching no bank key is dropped and nothing
\* is raised.
C11_KeysAreBankKeys ==
    det.called =>
        /\ ~det.raised
        /\ \A i \in 1..Len(det.ret) : det.ret[i].key \in C11_BankKeys
        /\ \A i \in 1..Len(det.detected) : det.detected[i].key \in C11_BankKeys

\* the AI list named cobol next to a bank skill, the job role matched, and
\* the result holds the bank skill only
C11_Witness ==
    /\ det.called
    /\ det.path = "AI_RESULT"
    /\ \E i \in 1..Len(det.completion.items) :
          det.completion.items[i].skill = "cobol"
    /\ MatchedRole(det.job_role) /= 0
    /\ Len(det.ret) = 1
    /\ det.ret[1].key \in C11_BankKeys

\* the variants the constructor leaves registered, each with its skill: the
\* key, the lowercased display name and the synonyms of lines 36-43; "node",
\* written for javascript and then for nodejs, belongs to nodejs
C13_Registered ==
    { <<"python", "python">>, <<"python3", "python">>, <<"python 3", "python">>,
      <<"sql", "sql">>, <<"javascript", "javascript">>, <<"js", "javascript">>,
      <<"react", "react">>, <<"html", "html">>, <<"css", "css">>,
      <<"nodejs", "nodejs">>, <<"node.js", "nodejs">>, <<"node", "nodejs">> }

\* how many entries of the result carry the key
C13_Occurrences(key) ==
    Cardinality({i \in 1..Len(det.ret) : det.ret[i].key = key})

\* C13: on the fallback path, for every variant registered for a skill (key,
\* display name, synonym), a text containing the variant yields a result
\* holding that skill's canonical key, and every canonical key of the result
\* occurs in it exactly once, however many of its variants the text holds.
C13_VariantYieldsKeyOnce ==
    (det.called /\ det.path = "FALLBACK_RESULT") =>
        /\ \A reg \in C13_Registered :
              InText(reg[1], normalize_text(det.text)) => C13_Occurrences(reg[2]) = 1
        /\ \A i \in 1..Len(det.ret) : C13_Occurrences(det.ret[i].key) = 1

\* the text holds two variants of python and the variant "node": the result
\* holds python once and nodejs once
C13_Witness ==
    /\ det.called
    /\ det.path = "FALLBACK_RESULT"
    /\ InText("python", normalize_text(det.text))
    /\ InText("python3", normalize_text(det.text))
    /\ \E i \in 1..Len(det.text) : det.text[i] = "node"
    /\ C13_Occurrences("python") = 1
    /\ C13_Occurrences("nodejs") = 1

\* how many entries of the list equal x
C14_Multiplicity(list, x) == Cardinality({i \in 1..Len(list) : list[i] = x})

\* the detected entries whose key is one of skills[p..], in priority order,
\* each group in its original order
RECURSIVE C14_PriorityFirst(_, _)
C14_PriorityFirst(skills, p) ==
    IF p > Len(skills) THEN << >>
    ELSE SelectSeq(det.detected, LAMBDA e : e.key = skills[p])
         \o C14_PriorityFirst(skills, p + 1)

\* the detected entries whose key is no priority skill, in their original order
C14_Remaining(skills) ==
    SelectSeq(det.detected, LAMBDA e : \A p \in 1..Len(skills) : e.key /= skills[p])

\* C14: the job-role step only reorders: on both branches the result is a
\* permutation of the detected list (same entries, same multiplicity), with
\* the matched role's priority skills first in priority order and the other
\* skills after them in their original order; a job role matching no known
\* role leaves the list unchanged.
C14_OnlyReorders ==
    (det.called /\ ~det.raised) =>
        /\ Len(det.ret) = Len(det.detected)
        /\ \A i \in 1..Len(det.detected) :
              C14_Multiplicity(det.ret, det.detected[i])
                  = C14_Multiplicity(det.detected, det.detected[i])
        /\ MatchedRole(det.job_role) = 0 => det.ret = det.detected
        /\ MatchedRole(det.job_role) /= 0 =>
              det.ret = C14_PriorityFirst(
                            job_role_priorities[MatchedRole(det.job_role)].skills, 1)
                        \o C14_Remaining(
                               job_role_priorities[MatchedRole(det.job_role)].skills)

-----------------------------------------------------------------------------
(* Further claim on generate_questions, checked under SpecGen *)

\* how many entries at the head of the result came from the AI path
C19_AiCount ==
    LET ai_questions == AiQuestions(gen.use_ollama, gen.resume_text, gen.completion)
    IN  IF ai_questions.ok THEN Min(Len(ai_questions.questions), Len(gen.ret)) ELSE 0

\* C19: in the result of generate_questions no skill key occurs twice among
\* the bank-sourced entries, and no bank-sourced entry carries the key of an
\* AI-sourced question, whatever duplicates the detected list holds and
\* whether or not the second backfill loop runs.
C19_BankEntriesHaveFreshKeys ==
    gen.called =>
        \A i \in (C19_AiCount + 1)..Len(gen.ret) :
           \A j \in 1..Len(gen.ret) :
              j /= i => gen.ret[j].skill /= gen.ret[i].skill

\* one AI question whose skill is also detected, a detected list naming a key
\* twice, and a bank entry added by the second loop at "intermediate"
C19_Witness ==
    /\ gen.called
    /\ C19_AiCount = 1
    /\ \E i \in 1..Len(gen.detected_skills) :
          gen.detected_skills[i].key = gen.ret[1].skill
    /\ \E i, j \in 1..Len(gen.detected_skills) :
          i < j /\ gen.detected_skills[i].key = gen.detected_skills[j].key
    /\ \E i \in 2..Len(gen.ret) :
          /\ gen.ret[i].level = "intermediate"
          /\ \A d \in 1..Len(gen.detected_skills) :
                gen.detected_skills[d].key = gen.ret[i].skill
                    => gen.detected_skills[d].level /= "intermediate"

-----------------------------------------------------------------------------
(* Further claim on the rotator, checked under SpecRot *)

\* C20: the usage history of every (skillKey, level) is bounded by the
\* rotation window: it never holds more than 10 selections.
C20_HistoryAtMostTen ==
    \A k \in UsageKeys : Len(question_usage[k]) <= 10

-----------------------------------------------------------------------------
(* get_fresh_question, analyze, and the two endpoints that call them *)

\* Optional[Dict] of get_fresh_question: None, or a question
NoQuestion == [found |-> FALSE, skill |-> "", level |-> "", question |-> ""]

SomeQuestion(skill, level, question) ==
    [found |-> TRUE, skill |-> skill, level |-> level, question |-> question]

\* lines 839-842: the first AI question from i on that is for the skill and
\* differs from exclude_question
RECURSIVE FirstFresh(_, _, _, _)
FirstFresh(ai_questions, i, skill_key, exclude_question) ==
    IF i > Len(ai_questions) THEN NoQuestion
    ELSE IF /\ Lower(ai_questions[i].skill) = Lower(skill_key)
            /\ ai_questions[i].question /= exclude_question
    THEN SomeQuestion(ai_questions[i].skill, ai_questions[i].level,
                      ai_questions[i].question)
    ELSE FirstFresh(ai_questions, i + 1, skill_key, exclude_question)

\* lines 827-843: the AI attempt of get_fresh_question
FreshFromAi(skill_key, exclude_question, resume_text, use_ollama, completion) ==
    IF use_ollama /\ Truthy(resume_text)
    THEN LET ai_questions == generate_questions_with_ollama(completion)
         IN  IF ai_questions.ok /\ ai_questions.questions /= << >>
             THEN FirstFresh(ai_questions.questions, 1, skill_key, exclude_question)
             ELSE NoQuestion
    ELSE NoQuestion

\* lines 847-862: the bank question under the requested key and level
FreshFromBank(question_text, skill_key, level) ==
    IF Truthy(question_text) THEN SomeQuestion(skill_key, level, question_text)
    ELSE NoQuestion

\* The outcomes of one call of get_fresh_question: the returned value, the
\* path that produced it and the usage map afterwards.
get_fresh_question(usage, skill_key, level, exclude_question, resume_text, use_ollama, completion) ==
    LET ai == FreshFromAi(skill_key, exclude_question, resume_text, use_ollama,
                          completion)
    IN  IF ai.found THEN {[ret |-> ai, source |-> "ai", usage |-> usage]}
        ELSE {[ret |-> FreshFromBank(out.ret, skill_key, level),
               source |-> "bank", usage |-> out.usage]
              : out \in get_next_question_from_bank(usage, skill_key, level,
                                                    exclude_question)}

\* len(word) for the words of a resume text
StrLen(word) ==
    CASE word = "Python" -> 6
      [] word = "python3" -> 7
      [] word = "3" -> 1
      [] word = "SQL" -> 3
      [] word = "Node.js" -> 7
      [] word = "nodejs" -> 6
      [] word = "node" -> 4
      [] word = "Expert" -> 6
      [] word = "familiar" -> 8
      [] OTHER -> 0

\* len(text.strip()) of a text of words separated by single blanks
RECURSIVE CharLen(_)
CharLen(text) ==
    IF text = << >> THEN 0
    ELSE IF Len(text) = 1 THEN StrLen(text[1])
    ELSE StrLen(Head(text)) + 1 + CharLen(Tail(text))

\* line 871: texts shorter than this are not analysed
MinTextLength == 10

\* the resume text as generate_questions tests it (line 742: truth value only)
ResumeText(text) == IF text = << >> THEN "" ELSE "resume"

\* lines 882-889: the skills of the response
SkillsResponse(detected_skills) ==
    [i \in 1..Len(detected_skills) |->
        [name |-> detected_skills[i].name, key |-> detected_skills[i].key,
         level |-> detected_skills[i].level]]

\* The outcomes of analyze on the extracted text (lines 871-896): whether it
\* raised, the response and the usage map afterwards.
analyze(usage, text, job_role, use_ollama, detect_completion, completion) ==
    IF text = << >> \/ CharLen(text) < MinTextLength
    THEN {[raised |-> FALSE, skills |-> << >>, questions |-> << >>, usage |-> usage]}
    ELSE UNION
         { IF d.raised
           THEN {[raised |-> TRUE, skills |-> << >>, questions |-> << >>,
                  usage |-> usage]}
           ELSE {[raised |-> FALSE, skills |-> SkillsResponse(d.ret),
                  questions |-> q.ret, usage |-> q.usage]
                 : q \in generate_questions(usage, d.ret, use_ollama,
                                            ResumeText(text), completion)}
           : d \in detect_skills(text, job_role, use_ollama, detect_completion) }

\* What a handler body does: it returns (status 200) or raises; an
\* HTTPException carries its status code, any other exception none (0).
Returned == [raised |-> FALSE, status_code |-> 200]

Raised(status_code) == [raised |-> TRUE, status_code |-> status_code]

\* main.py lines 95-96 and 182-183: the handler body runs inside try, and
\* "except Exception" catches whatever it raised, an HTTPException of the
\* body included, and raises HTTPException(status_code=500)
ExceptException(body) == IF body.raised THEN Raised(500) ELSE body

\* main.py lines 166-183: the outcomes of POST /api/refresh_question
refresh_question(usage, request, use_ollama, completion) ==
    { LET body == IF ~f.ret.found THEN Raised(404) ELSE Returned
      IN  [status_code |-> ExceptException(body).status_code,
           questions |-> IF f.ret.found
                         THEN << [skill |-> f.ret.skill, level |-> f.ret.level,
                                  question |-> f.ret.question] >>
                         ELSE << >>,
           fresh |-> f.ret, source |-> f.source, usage |-> f.usage]
      : f \in get_fresh_question(usage, request.skill, request.level,
                                 request.exclude_question, request.resume_text,
                                 use_ollama, completion) }

\* main.py line 84: resumeFile.filename.endswith('.pdf')
EndsWithPdf(filename) == filename \in {"cv.pdf"}

\* main.py lines 82-96: the outcomes of POST /api/analyze_resume; an upload
\* is its file name, whether pdfplumber can read it, and the text it holds
analyze_resume(usage, upload, job_role, use_ollama, detect_completion, completion) ==
    IF ~EndsWithPdf(upload.filename)
    THEN {[status_code |-> ExceptException(Raised(400)).status_code,
           skills |-> << >>, questions |-> << >>, usage |-> usage]}
    ELSE IF ~upload.readable
    THEN {[status_code |-> ExceptException(Raised(0)).status_code,
           skills |-> << >>, questions |-> << >>, usage |-> usage]}
    ELSE {[status_code |->
               ExceptException(IF a.raised THEN Raised(0) ELSE Returned).status_code,
           skills |-> a.skills, questions |-> a.questions, usage |-> a.usage]
          : a \in analyze(usage, upload.text, job_role, use_ollama,
                          detect_completion, completion)}

-----------------------------------------------------------------------------
(* SpecApi: one request to /api/analyze_resume or to /api/refresh_question *)

RefreshRequests ==
    [skill : {"python", "Python", "sql", "react", "cobol"},
     level : {"beginner", "intermediate", "advanced", "expert"},
     exclude_question : {None, "Q2", "Q4", "A1"},
     resume_text : {None, "", "resume"}]

ApiTexts == SeqsUpTo({"Python", "SQL", "Expert"}, MaxWords)

Uploads ==
    { [filename |-> "cv.txt", readable |-> TRUE, text |-> <<"Python", "SQL">>],
      [filename |-> "cv.pdf", readable |-> FALSE, text |-> << >>] }
    \cup {[filename |-> "cv.pdf", readable |-> TRUE, text |-> t] : t \in ApiTexts}

ApiJobRoles == {None, "Data Science"}

ApiDetectCompletions ==
    { [kind |-> "error", items |-> << >>],
      [kind |-> "list", items |-> <<DetectItem("cobol", "beginner", "c1")>>],
      [kind |-> "list", items |-> <<DetectItem("Python", "Expert", "c1")>>],
      [kind |-> "list", items |-> <<DetectItem("sql", "advanced", "c1"),
                                    DetectItem("Python", "Expert", "c1")>>] }

\* self.use_ollama and what the completions return; they only matter with
\* use_ollama
ApiInputs ==
    {[use_ollama |-> FALSE, detect_completion |-> [kind |-> "error", items |-> << >>],
      completion |-> [kind |-> "error", items |-> << >>]]}
    \cup {[use_ollama |-> TRUE, detect_completion |-> dc, completion |-> c]
          : dc \in ApiDetectCompletions, c \in Completions}

ApiIdle ==
    [op |-> "idle", use_ollama |-> FALSE,
     detect_completion |-> [kind |-> "error", items |-> << >>],
     completion |-> [kind |-> "error", items |-> << >>],
     upload |-> [filename |-> "", readable |-> FALSE, text |-> << >>],
     job_role |-> None,
     request |-> [skill |-> "", level |-> "", exclude_question |-> None,
                  resume_text |-> None],
     fresh |-> NoQuestion, source |-> "none",
     status_code |-> 0, skills |-> << >>, questions |-> << >>]

ApiInit ==
    /\ question_usage \in PriorUsages
    /\ api = ApiIdle
    /\ rot = None
    /\ gen = None
    /\ conc = None
    /\ det = None
    /\ judge = None
    /\ parse = None
    /\ inf = None
    /\ flow = None

\* one request POST /api/analyze_resume
AnalyzeResume ==
    /\ api.op = "idle"
    /\ \E upload \in Uploads, job_role \in ApiJobRoles, in \in ApiInputs :
       \E out \in analyze_resume(question_usage, upload, job_role, in.use_ollama,
                                 in.detect_completion, in.completion) :
          /\ question_usage' = out.usage
          /\ api' = [ApiIdle EXCEPT !.op = "analyze",
                                    !.use_ollama = in.use_ollama,
                                    !.detect_completion = in.detect_completion,
                                    !.completion = in.completion,
                                    !.upload = upload,
                                    !.job_role = job_role,
                                    !.status_code = out.status_code,
                                    !.skills = out.skills,
                                    !.questions = out.questions]
    /\ UNCHANGED <<rot, gen, conc, det, judge, parse, inf, flow>>

\* one request POST /api/refresh_question
RefreshQuestion ==
    /\ api.op = "idle"
    /\ \E request \in RefreshRequests, in \in ApiInputs :
       \E out \in refresh_question(question_usage, request, in.use_ollama,
                                   in.completion) :
          /\ question_usage' = out.usage
          /\ api' = [ApiIdle EXCEPT !.op = "refresh",
                                    !.use_ollama = in.use_ollama,
                                    !.completion = in.completion,
                                    !.request = request,
                                    !.fresh = out.fresh,
                                    !.source = out.source,
                                    !.status_code = out.status_code,
                                    !.questions = out.questions]
    /\ UNCHANGED <<rot, gen, conc, det, judge, parse, inf, flow>>

ApiNext == AnalyzeResume \/ RefreshQuestion

SpecApi == ApiInit /\ [][ApiNext]_vars

-----------------------------------------------------------------------------
(* Claims on the endpoints, checked under SpecApi *)

\* the completion item an AI question was built from
C12_MadeFrom(q, item) ==
    /\ item.kind = "dict"
    /\ Lower(item.skill) = Lower(q.skill)
    /\ Strip(item.question) = q.question

\* C12: every question returned by analyze or by refresh has a level in
\* {beginner, intermediate, advanced}, whatever the request and whatever
\* the completions return; a question made from an AI item whose level is
\* outside the set carries "intermediate".
C12_LevelsCanonical ==
    api.op /= "idle" =>
        /\ \A i \in 1..Len(api.questions) :
              api.questions[i].level \in {"beginner", "intermediate", "advanced"}
        /\ (api.op = "refresh" /\ api.source = "ai") =>
              \E n \in 1..Len(api.completion.items) :
                 /\ C12_MadeFrom(api.questions[1], api.completion.items[n])
                 /\ \/ api.questions[1].level = Lower(api.completion.items[n].level)
                    \/ /\ Lower(api.completion.items[n].level)
                             \notin {"beginner", "intermediate", "advanced"}
                       /\ api.questions[1].level = "intermediate"

\* a refresh at level "advanced" answered by the AI path from an item of
\* level "expert": the question carries "intermediate"
C12_Witness ==
    /\ api.op = "refresh"
    /\ api.source = "ai"
    /\ api.status_code = 200
    /\ api.request.level = "advanced"
    /\ \A n \in 1..Len(api.completion.items) :
          C12_MadeFrom(api.questions[1], api.completion.items[n])
              => api.completion.items[n].level = "expert"
    /\ api.questions[1].level = "intermediate"

\* C15: a refresh for which neither the AI path nor the bank produces a
\* question ends in the "not found" outcome (status 404), not in a generic
\* internal error.
C15_NotFoundIs404 ==
    (api.op = "refresh" /\ ~api.fresh.found) => api.status_code = 404

-----------------------------------------------------------------------------
(* The judge endpoint (main.py, judge_question) *)

\* The skill and the question of a judge request are lists of pieces: a
\* piece is a blank " " or a run of characters without blanks that the
\* checks treat as a whole (a keyword phrase is one piece).

\* str.lower() on a list of pieces
LowerPieces(pieces) == [i \in 1..Len(pieces) |-> Lower(pieces[i])]

\* str.replace(" ", "")
RemoveBlanks(pieces) == SelectSeq(pieces, LAMBDA piece : piece /= " ")

\* needle in text, for lists of pieces
Occurs(needle, text) ==
    \E i \in 0..(Len(text) - Len(needle)) :
       \A k \in 1..Len(needle) : text[i + k] = needle[k]

\* main.py line 122
judge_advanced_keywords == {"optimize", "implement", "design", "architecture", "complex"}

\* main.py line 127
judge_allowance_phrases == {"how would you", "describe how"}

\* any(kw in question_lower for kw in keywords)
AnyKeyword(keywords, question_lower) ==
    \E kw \in keywords : Occurs(<<kw>>, question_lower)

\* mutant of MentionsSkill: the blank-free skill is looked up in the question
\* as it stands
MentionsSkillInRawQuestion(skill_lower, question_lower) ==
    \/ Occurs(skill_lower, question_lower)
    \/ Occurs(RemoveBlanks(skill_lower), question_lower)

\* main.py line 117, negated: the question mentions the skill
MentionsSkill(skill_lower, question_lower) ==
    \/ Occurs(skill_lower, question_lower)
    \/ Occurs(RemoveBlanks(skill_lower), RemoveBlanks(question_lower))

\* main.py lines 124-128: the level violation, as a list of zero or one tags
LevelViolations(level, question_lower) ==
    IF level = "beginner" /\ AnyKeyword(judge_advanced_keywords, question_lower)
    THEN <<"question_too_advanced_for_level">>
    ELSE IF /\ level = "advanced"
            /\ ~AnyKeyword(judge_advanced_keywords, question_lower)
            /\ ~AnyKeyword(judge_allowance_phrases, question_lower)
    THEN <<"question_too_basic_for_level">>
    ELSE << >>

\* main.py lines 111-130: the violations and the verdict
Verdict(skill, level, question) ==
    LET violations ==
            (IF ~MentionsSkill(LowerPieces(skill), LowerPieces(question))
             THEN <<"question_does_not_mention_skill">> ELSE << >>)
            \o LevelViolations(level, LowerPieces(question))
    IN  [passes |-> Len(violations) = 0, violations |-> violations]

\* main.py lines 138-145: the audit record
TraceEntry(skill, level, question, verdict) ==
    [skill |-> skill, level |-> level, question |-> question,
     passes |-> verdict.passes, violations |-> verdict.violations]

\* main.py lines 100-153: the outcome of POST /agents/judge on a trace file
\* with the given lines; write_ok tells whether mkdir, open and write of
\* lines 134-148 succeed.  They stand outside any try: when one raises, the
\* handler raises and the framework answers 500 without a result.
judge_question(trace, skill, level, question, write_ok) ==
    LET verdict == Verdict(skill, level, question)
    IN  IF write_ok
        THEN [status_code |-> 200, returned |-> TRUE, verdict |-> verdict,
              trace |-> Append(trace, TraceEntry(skill, level, question, verdict))]
        ELSE [status_code |-> 500, returned |-> FALSE, verdict |-> verdict,
              trace |-> trace]

-----------------------------------------------------------------------------
(* SpecJudge: one request to /agents/judge *)

JudgePieces == {"python", "node", "js", " ", "Design", "How would you"}

JudgeQuestions == SeqsUpTo(JudgePieces, MaxPieces)

\* a skill in upper case, one written without and with a blank, one that the
\* pieces of the questions never spell
JudgeSkills == {<<"Python">>, <<"node", "js">>, <<"node", " ", "js">>, <<"React">>}

JudgeLevels == {"beginner", "intermediate", "advanced", "Beginner"}

\* the trace file before the request: absent or empty, or holding a line
JudgeTraces ==
    { << >>,
      << TraceEntry(<<"Python">>, "beginner", <<"python">>,
                    [passes |-> TRUE, violations |-> << >>]) >> }

JudgeIdle ==
    [called |-> FALSE, skill |-> << >>, level |-> "", question |-> << >>,
     write_ok |-> TRUE, before |-> << >>, trace |-> << >>,
     status_code |-> 0, returned |-> FALSE,
     verdict |-> [passes |-> TRUE, violations |-> << >>]]

JudgeInit ==
    /\ question_usage = EmptyUsage
    /\ \E trace \in JudgeTraces :
          judge = [JudgeIdle EXCEPT !.before = trace, !.trace = trace]
    /\ rot = None
    /\ gen = None
    /\ conc = None
    /\ det = None
    /\ api = None
    /\ parse = None
    /\ inf = None
    /\ flow = None

\* one request POST /agents/judge
JudgeQuestion ==
    /\ ~judge.called
    /\ \E skill \in JudgeSkills, level \in JudgeLevels,
          question \in JudgeQuestions, write_ok \in BOOLEAN :
          LET out == judge_question(judge.trace, skill, level, question, write_ok)
          IN  judge' = [called |-> TRUE, skill |-> skill, level |-> level,
                        question |-> question, write_ok |-> write_ok,
                        before |-> judge.trace, trace |-> out.trace,
                        status_code |-> out.status_code,
                        returned |-> out.returned, verdict |-> out.verdict]
    /\ UNCHANGED <<question_usage, rot, gen, conc, det, api, parse, inf, flow>>

JudgeNext == JudgeQuestion

SpecJudge == JudgeInit /\ [][JudgeNext]_vars

-----------------------------------------------------------------------------
(* Claims on the judge, checked under SpecJudge *)

\* the tag is among the violations of the verdict
C16_Flags(tag) ==
    \E i \in 1..Len(judge.verdict.violations) : judge.verdict.violations[i] = tag

\* the level checks of the claim: too advanced exactly for a beginner
\* question holding an advanced keyword, too basic exactly for an advanced
\* question holding neither an advanced keyword nor an allowance phrase,
\* never both; passes exactly when no violation was collected
C16_LevelChecks ==
    LET q == LowerPieces(judge.question)
        HasAdvanced == \E i \in 1..Len(q) : q[i] \in judge_advanced_keywords
        HasAllowance == \E i \in 1..Len(q) : q[i] \in judge_allowance_phrases
    IN  /\ judge.verdict.passes <=> (judge.verdict.violations = << >>)
        /\ C16_Flags("question_too_advanced_for_level")
               <=> (judge.level = "beginner" /\ HasAdvanced)
        /\ C16_Flags("question_too_basic_for_level")
               <=> (judge.level = "advanced" /\ ~HasAdvanced /\ ~HasAllowance)
        /\ ~(/\ C16_Flags("question_too_advanced_for_level")
             /\ C16_Flags("question_too_basic_for_level"))

\* C16 as stated: the judge returns passes = true exactly when the violation
\* set is empty; it flags question_does_not_mention_skill exactly when
\* neither the skill nor its space-stripped form occurs in the lowercased
\* question; and the level checks hold.
C16_AsStated ==
    (judge.called /\ judge.returned) =>
        /\ C16_LevelChecks
        /\ C16_Flags("question_does_not_mention_skill")
               <=> /\ ~Occurs(LowerPieces(judge.skill), LowerPieces(judge.question))
                   /\ ~Occurs(RemoveBlanks(LowerPieces(judge.skill)),
                              LowerPieces(judge.question))

\* C16, amended: as stated, except that question_does_not_mention_skill is
\* flagged exactly when the lowercased skill does not occur in the
\* lowercased question and the space-stripped skill does not occur in the
\* space-stripped question.
C16_VerdictMatchesChecks ==
    (judge.called /\ judge.returned) =>
        /\ C16_LevelChecks
        /\ C16_Flags("question_does_not_mention_skill")
               <=> /\ ~Occurs(LowerPieces(judge.skill), LowerPieces(judge.question))
                   /\ ~Occurs(RemoveBlanks(LowerPieces(judge.skill)),
                              RemoveBlanks(LowerPieces(judge.question)))

\* the skill is written without a blank and the question spells it with
\* one: the judge takes the skill as mentioned, and at level "advanced"
\* without keyword or phrase it returns the too-basic violation alone
C16_Witness ==
    /\ judge.called
    /\ judge.returned
    /\ judge.skill = <<"node", "js">>
    /\ ~Occurs(judge.skill, judge.question)
    /\ Occurs(judge.skill, RemoveBlanks(judge.question))
    /\ judge.level = "advanced"
    /\ judge.verdict.violations = <<"question_too_basic_for_level">>
    /\ ~judge.verdict.passes

\* C17: every judge request attempts to append one record to the audit log,
\* and the verdict is returned whether or not the append succeeds.
C17_VerdictDespiteLogFailure ==
    judge.called =>
        /\ judge.returned
        /\ judge.status_code = 200
        /\ judge.write_ok =>
              judge.trace = Append(judge.before,
                                   TraceEntry(judge.skill, judge.level,
                                              judge.question, judge.verdict))

-----------------------------------------------------------------------------
(* The JSON extractor (_parse_json_from_response) *)

\* A response text is described by what the primitives of the four
\* strategies yield on it:
\*   blank       the text is empty or white space
\*   direct      json.loads on the whole text, code fences removed
\*   array_match the greedy search for [ ... ] finds a match
\*   array       json.loads on that match, trailing commas removed
\*   objects     json.loads on each match of the object pattern, in order
\*   triplets    the skill/level/question triplets the regular expressions
\*               of the fourth strategy put together
\* json.loads yields a list ("list"), another JSON value ("value"), raises
\* JSONDecodeError ("decode_error") or raises another exception ("error":
\* RecursionError on deep nesting, ValueError on an oversized integer).  On
\* an object match it yields an object with the three keys ("dict"), one
\* without ("value"), or raises.
Loaded(kind, items) == [kind |-> kind, items |-> items]

\* the outcome of a strategy: it returned the items, fell through, or raised
Success(items) == [raised |-> FALSE, done |-> TRUE, items |-> items]

Fail == [raised |-> FALSE, done |-> FALSE, items |-> << >>]

Raise == [raised |-> TRUE, done |-> FALSE, items |-> << >>]

\* lines 361-373: only JSONDecodeError is caught
Strategy1(response) ==
    IF response.direct.kind = "list" THEN Success(response.direct.items)
    ELSE IF response.direct.kind = "error" THEN Raise
    ELSE Fail

\* lines 376-394: only JSONDecodeError is caught
Strategy2(response) ==
    IF ~response.array_match THEN Fail
    ELSE IF response.array.kind = "list" /\ Len(response.array.items) > 0
    THEN Success(response.array.items)
    ELSE IF response.array.kind = "error" THEN Raise
    ELSE Fail

\* lines 405-418: the loop over the matches from i on; JSONDecodeError
\* skips the match, another exception leaves the loop
RECURSIVE CollectObjects(_, _, _)
CollectObjects(matches, i, parsed_objects) ==
    IF i > Len(matches) THEN Success(parsed_objects)
    ELSE IF matches[i].kind = "error" THEN Raise
    ELSE IF matches[i].kind = "dict"
    THEN CollectObjects(matches, i + 1, parsed_objects \o matches[i].items)
    ELSE CollectObjects(matches, i + 1, parsed_objects)

\* lines 397-423: every exception is caught
Strategy3(response) ==
    LET collected == CollectObjects(response.objects, 1, << >>)
    IN  IF collected.raised \/ collected.items = << >> THEN Fail
        ELSE Success(collected.items)

\* lines 426-457: every exception is caught
Strategy4(response) ==
    IF response.triplets /= << >> THEN Success(response.triplets) ELSE Fail

\* lines 355-459: the strategies from number n on
RECURSIVE StrategiesFrom(_, _)
StrategiesFrom(response, n) ==
    LET out == CASE n = 1 -> Strategy1(response)
                 [] n = 2 -> Strategy2(response)
                 [] n = 3 -> Strategy3(response)
                 [] OTHER -> Strategy4(response)
    IN  IF out.raised THEN [raised |-> TRUE, ok |-> FALSE, items |-> << >>, strategy |-> n]
        ELSE IF out.done
        THEN [raised |-> FALSE, ok |-> TRUE, items |-> out.items, strategy |-> n]
        ELSE IF n = 4
        THEN [raised |-> FALSE, ok |-> FALSE, items |-> << >>, strategy |-> 0]
        ELSE StrategiesFrom(response, n + 1)

\* _parse_json_from_response: whether it raised, whether it returned a list
\* (ok) or None, the list, and the strategy that returned it
parse_json_from_response(response) ==
    IF response.blank
    THEN [raised |-> FALSE, ok |-> FALSE, items |-> << >>, strategy |-> 0]
    ELSE StrategiesFrom(response, 1)

-----------------------------------------------------------------------------
(* SpecParse: one call of _parse_json_from_response *)

DirectOutcomes ==
    { Loaded("decode_error", << >>), Loaded("error", << >>),
      Loaded("value", << >>), Loaded("list", << >>),
      Loaded("list", <<Item("Python", "Advanced", "A1")>>) }

ArrayOutcomes ==
    { Loaded("decode_error", << >>), Loaded("error", << >>),
      Loaded("list", << >>),
      Loaded("list", <<Item("sql", "expert", " A2 ")>>) }

ObjectOutcomes ==
    { Loaded("decode_error", << >>), Loaded("error", << >>),
      Loaded("value", << >>),
      Loaded("dict", <<Item("cobol", "beginner", "A3")>>) }

TripletLists == {<< >>, <<Item("javascript", "beginner", "A4")>>}

\* the responses: a blank text, on which no primitive finds anything, and
\* the texts with something in them; a text that parses as a list holds
\* brackets, so the array search matches on it
Responses ==
    { [blank |-> TRUE, direct |-> Loaded("decode_error", << >>),
       array_match |-> FALSE, array |-> Loaded("decode_error", << >>),
       objects |-> << >>, triplets |-> << >>] }
    \cup { [blank |-> FALSE, direct |-> d, array_match |-> FALSE,
             array |-> Loaded("decode_error", << >>), objects |-> o, triplets |-> t]
           : d \in {x \in DirectOutcomes : x.kind /= "list"},
             o \in SeqsUpTo(ObjectOutcomes, MaxMatches), t \in TripletLists }
    \cup { [blank |-> FALSE, direct |-> d, array_match |-> TRUE, array |-> a,
             objects |-> o, triplets |-> t]
           : d \in DirectOutcomes, a \in ArrayOutcomes,
             o \in SeqsUpTo(ObjectOutcomes, MaxMatches), t \in TripletLists }

ParseIdle ==
    [called |-> FALSE,
     response |-> [blank |-> TRUE, direct |-> Loaded("decode_error", << >>),
                   array_match |-> FALSE, array |-> Loaded("decode_error", << >>),
                   objects |-> << >>, triplets |-> << >>],
     raised |-> FALSE, ok |-> FALSE, items |-> << >>, strategy |-> 0]

ParseInit ==
    /\ question_usage = EmptyUsage
    /\ parse = ParseIdle
    /\ rot = None
    /\ gen = None
    /\ conc = None
    /\ det = None
    /\ api = None
    /\ judge = None
    /\ inf = None
    /\ flow = None

\* one call self._parse_json_from_response(response_text)
ParseResponse ==
    /\ ~parse.called
    /\ \E response \in Responses :
          LET out == parse_json_from_response(response)
          IN  parse' = [called |-> TRUE, response |-> response,
                        raised |-> out.raised, ok |-> out.ok,
                        items |-> out.items, strategy |-> out.strategy]
    /\ UNCHANGED <<question_usage, rot, gen, conc, det, api, judge, inf, flow>>

ParseNext == ParseResponse

SpecParse == ParseInit /\ [][ParseNext]_vars

-----------------------------------------------------------------------------
(* Claim on the JSON extractor, checked under SpecParse *)

\* strategy n succeeds on the response: 1 when the whole text loads as a
\* list, 2 when the array match loads as a non-empty list, 3 when the object
\* matches load and one of them is an object with the three keys, 4 when a
\* triplet is found
C18_Succeeds(n) ==
    LET r == parse.response
    IN  CASE n = 1 -> r.direct.kind = "list"
          [] n = 2 -> /\ r.array_match
                      /\ r.array.kind = "list"
                      /\ r.array.items /= << >>
          [] n = 3 -> /\ \E i \in 1..Len(r.objects) : r.objects[i].kind = "dict"
                      /\ \A i \in 1..Len(r.objects) : r.objects[i].kind /= "error"
          [] OTHER -> r.triplets /= << >>

\* what strategy n returns when it succeeds
C18_ResultOf(n) ==
    LET r == parse.response
    IN  CASE n = 1 -> r.direct.items
          [] n = 2 -> r.array.items
          [] n = 3 -> CollectObjects(r.objects, 1, << >>).items
          [] OTHER -> r.triplets

\* C18: the extractor applies its strategies in the order 1, 2, 3, 4 and
\* returns the result of the first that succeeds; it returns null only when
\* all four fail, and it never raises to its caller.
C18_FirstSuccessNeverRaises ==
    parse.called =>
        /\ ~parse.raised
        /\ \A n \in 1..4 :
              (C18_Succeeds(n) /\ \A m \in 1..(n - 1) : ~C18_Succeeds(m)) =>
                  /\ parse.ok
                  /\ parse.strategy = n
                  /\ parse.items = C18_ResultOf(n)
        /\ ~parse.ok => \A n \in 1..4 : ~C18_Succeeds(n)

-----------------------------------------------------------------------------
(* Frame effect of the rotator, checked under SpecRot *)

\* the histories of all keys but the call's own are as before the call
C21_OthersUnchanged ==
    \A k \in UsageKeys : k /= rot.focus => question_usage[k] = rot.before[k]

\* before the call no question of the pool was eligible: each one is the
\* excluded text or fills the last 10 entries of the history
C21_NoneEligible ==
    \A i \in 1..Len(RotPool) :
       \/ (rot.exclude \notin {None, ""} /\ RotPool[i] = rot.exclude)
       \/ /\ Len(rot.before[rot.focus]) >= 10
          /\ \A n \in (Len(rot.before[rot.focus]) - 9)..Len(rot.before[rot.focus]) :
                rot.before[rot.focus][n] = i - 1

\* C21 as stated: every next call that returns a question appends to the
\* history of its own (skillKey, level) exactly one entry, the bank index of
\* the returned question, and leaves the other histories unchanged; a call
\* that returns null changes no history.
C21_AsStated ==
    RotCalled =>
        /\ C21_OthersUnchanged
        /\ rot.ret = None => question_usage = rot.before
        /\ rot.ret /= None =>
              \E i \in 1..Len(RotPool) :
                 /\ RotPool[i] = rot.ret
                 /\ question_usage[rot.focus]
                        = Append(rot.before[rot.focus], i - 1)

\* C21, amended: a next call that returns a question picked among the
\* candidates leaves in the history of its own (skillKey, level) the earlier
\* entries followed by the bank index of the returned question, the earlier
\* entries being dropped first when no question was eligible and the history
\* held 10 or more; a call that returns the excluded question for want of an
\* alternative appends nothing (and drops the entries under the same
\* condition); every call leaves the other histories unchanged, and a call
\* that returns null changes no history.
C21_FrameEffect ==
    RotCalled =>
        /\ C21_OthersUnchanged
        /\ rot.ret = None => question_usage = rot.before
        /\ rot.ret /= None =>
              LET old == rot.before[rot.focus]
                  kept == IF C21_NoneEligible /\ Len(old) >= 10 THEN << >> ELSE old
              IN  IF rot.idx >= 0
                  THEN /\ RotPool[rot.idx + 1] = rot.ret
                       /\ question_usage[rot.focus] = Append(kept, rot.idx)
                  ELSE /\ rot.ret = rot.exclude
                       /\ question_usage[rot.focus] = kept

\* the call found a history of 10 entries with no eligible question, and
\* left the index of the returned question as the only entry
C21_Witness ==
    /\ RotCalled
    /\ rot.ret /= None
    /\ rot.idx >= 0
    /\ Len(rot.before[rot.focus]) >= 10
    /\ C21_NoneEligible
    /\ question_usage[rot.focus] = <<rot.idx>>

-----------------------------------------------------------------------------
(* SpecInfer: one call of infer_skill_level *)

\* the (skill_key, variant) pairs detect_skills calls it with (line 230)
InferSkills ==
    {[key |-> skill_vocab[v].key, variant |-> skill_vocab[v].variant]
        : v \in 1..Len(skill_vocab)}

\* self.use_ollama and what the level completion does; the completion only
\* matters with use_ollama
InferInputs ==
    {[use_ollama |-> FALSE, completion |-> [kind |-> "error", content |-> ""]]}
    \cup {[use_ollama |-> TRUE, completion |-> c] : c \in LevelCompletions}

InferIdle ==
    [called |-> FALSE, text |-> << >>, skill_key |-> "", variant |-> "",
     use_ollama |-> FALSE, completion |-> [kind |-> "error", content |-> ""],
     ret |-> ""]

InferInit ==
    /\ question_usage = EmptyUsage
    /\ inf = InferIdle
    /\ rot = None
    /\ gen = None
    /\ conc = None
    /\ det = None
    /\ api = None
    /\ judge = None
    /\ parse = None
    /\ flow = None

\* one call self.infer_skill_level(text, skill_key, variant)
InferSkillLevel ==
    /\ ~inf.called
    /\ \E text \in Texts, skill \in InferSkills, in \in InferInputs :
          inf' = [called |-> TRUE, text |-> text, skill_key |-> skill.key,
                  variant |-> skill.variant, use_ollama |-> in.use_ollama,
                  completion |-> in.completion,
                  ret |-> infer_skill_level(text, skill.key, skill.variant,
                                            in.use_ollama, in.completion)]
    /\ UNCHANGED <<question_usage, rot, gen, conc, det, api, judge, parse, flow>>

InferNext == InferSkillLevel

SpecInfer == InferInit /\ [][InferNext]_vars

-----------------------------------------------------------------------------
(* Claim on infer_skill_level, checked under SpecInfer *)

\* the completion was called: AI inference is enabled and the skill key
\* stands in the text between word boundaries
C23_CompletionCalled ==
    /\ inf.called
    /\ inf.use_ollama
    /\ BoundaryMatch(inf.skill_key, normalize_text(inf.text))

\* the completion answered with text that is none of the three level words
C23_Unrecognised ==
    /\ inf.completion.kind = "text"
    /\ Lower(Strip(inf.completion.content))
           \notin {"beginner", "intermediate", "advanced"}

\* the text holds one of the keywords
C23_HasKeyword(keywords) ==
    \E i \in 1..Len(inf.text) : Lower(inf.text[i]) \in keywords

\* what keyword inference gives for the variant on the text
C23_KeywordLevel ==
    IF ~BoundaryMatch(inf.variant, normalize_text(inf.text)) THEN "intermediate"
    ELSE IF C23_HasKeyword({"advanced", "expert", "lead", "senior", "extensive",
                            "deep", "mastery"})
    THEN "advanced"
    ELSE IF C23_HasKeyword({"beginner", "familiar", "basic", "learning",
                            "introduction", "introductory", "novice"})
    THEN "beginner"
    ELSE "intermediate"

\* C23 as stated: with AI level inference enabled, infer_skill_level returns
\* "intermediate" whenever the completion call fails or returns text that
\* is not one of the three level words, whatever keywords stand around the
\* skill in the text.
C23_AsStated ==
    (C23_CompletionCalled /\ (inf.completion.kind = "error" \/ C23_Unrecognised))
        => inf.ret = "intermediate"

\* C23, amended: with AI level inference enabled, infer_skill_level returns
\* "intermediate" whenever the completion returns text that is not one of
\* the three level words, whatever keywords stand around the skill; when the
\* completion call fails it returns the level keyword inference gives.
C23_DefaultOnUnrecognisedOnly ==
    /\ (C23_CompletionCalled /\ C23_Unrecognised) => inf.ret = "intermediate"
    /\ (C23_CompletionCalled /\ inf.completion.kind = "error")
           => inf.ret = C23_KeywordLevel

\* the text names the skill next to an advanced keyword, the completion
\* answers with other words, and the level is "intermediate"
C23_Witness ==
    /\ C23_CompletionCalled
    /\ C23_Unrecognised
    /\ BoundaryMatch(inf.variant, normalize_text(inf.text))
    /\ C23_HasKeyword({"expert"})
    /\ inf.ret = "intermediate"

-----------------------------------------------------------------------------
(* Claim on get_fresh_question, checked under SpecApi *)

\* C24: every question that get_fresh_question(skillKey, level, ...) returns
\* carries the requested skill key, up to case, and the requested level, on
\* the AI path as on the bank path.
C24_CarriesRequestedKeyAndLevel ==
    (api.op = "refresh" /\ api.fresh.found) =>
        /\ Lower(api.fresh.skill) = Lower(api.request.skill)
        /\ api.fresh.level = api.request.level

-----------------------------------------------------------------------------
(* SpecFlow: one call of analyze, one step per stage, counting the calls of *)
(* the completion capability                                               *)

\* lines 748-822 of generate_questions: the bank loops on the questions the
\* AI path left
Backfill(usage, detected_skills, questions) ==
    LET st0 == [questions |-> questions,
                skills_with_questions |-> SkillsOf(questions),
                usage |-> usage]
        after1 == Pass1From({st0}, detected_skills, 1)
        after2 == UNION {IF Len(st.questions) < MinQuestions
                         THEN Pass2From({st}, detected_skills, 1)
                         ELSE {st} : st \in after1}
    IN  {[ret |-> Prefix(st.questions, MaxQuestions), usage |-> st.usage]
         : st \in after2}

\* mutant of NextAfterDetect: an unusable answer leads back to the call
NextAfterDetectRetry(ai_detected) ==
    IF AiResultUsable(ai_detected) THEN "generate" ELSE "detect"

\* lines 190-209 of detect_skills: where control goes after the detection call
NextAfterDetect(ai_detected) ==
    IF AiResultUsable(ai_detected) THEN "generate" ELSE "fallback_detect"

\* lines 743-748 of generate_questions: where control goes after the
\* generation call
NextAfterGenerate(ai_questions) ==
    IF ai_questions.ok /\ Len(ai_questions.questions) >= MaxQuestions
    THEN "done" ELSE "backfill"

FlowIdle ==
    [pc |-> "idle", text |-> << >>, job_role |-> None, use_ollama |-> FALSE,
     detect_completion |-> [kind |-> "error", items |-> << >>],
     completion |-> [kind |-> "error", items |-> << >>],
     before |-> EmptyUsage, detect_calls |-> 0, generate_calls |-> 0,
     events |-> << >>, detected |-> << >>, questions |-> << >>]

FlowInit ==
    /\ question_usage \in PriorUsages
    /\ flow = FlowIdle
    /\ rot = None
    /\ gen = None
    /\ conc = None
    /\ det = None
    /\ api = None
    /\ judge = None
    /\ parse = None
    /\ inf = None

FlowOthers == <<rot, gen, conc, det, api, judge, parse, inf>>

\* lines 868-876: analyze receives the extracted text; a short text ends it
ReceiveText ==
    /\ flow.pc = "idle"
    /\ \E text \in ApiTexts, job_role \in ApiJobRoles, use_ollama \in BOOLEAN :
          flow' = [flow EXCEPT !.text = text, !.job_role = job_role,
                               !.use_ollama = use_ollama,
                               !.before = question_usage,
                               !.pc = IF text = << >> \/ CharLen(text) < MinTextLength
                                      THEN "done" ELSE "detect"]
    /\ UNCHANGED question_usage
    /\ UNCHANGED FlowOthers

\* lines 189-206: the detection call and what detect_skills does with it
DetectWithAi ==
    /\ flow.pc = "detect"
    /\ flow.use_ollama
    /\ \E c \in ApiDetectCompletions :
          LET ai_detected == detect_skills_with_ollama(c)
          IN  flow' = [flow EXCEPT
                  !.detect_completion = c,
                  !.detect_calls = @ + 1,
                  !.events = Append(@, IF AiResultUsable(ai_detected)
                                       THEN "detect_ok" ELSE "detect_failed"),
                  !.detected = IF AiResultUsable(ai_detected)
                               THEN Prioritize(ai_detected.skills, flow.job_role)
                               ELSE << >>,
                  !.pc = NextAfterDetect(ai_detected)]
    /\ UNCHANGED question_usage
    /\ UNCHANGED FlowOthers

\* lines 209-248: the vocabulary scan, the levels and the job-role step
FallbackDetect ==
    /\ \/ flow.pc = "fallback_detect"
       \/ flow.pc = "detect" /\ ~flow.use_ollama
    /\ \E detected \in InferLevels({ScanVocab(normalize_text(flow.text), 1, << >>)},
                                   flow.text, flow.use_ollama, 1) :
          flow' = [flow EXCEPT !.events = Append(@, "vocabulary_scan"),
                               !.detected = Prioritize(detected, flow.job_role),
                               !.pc = "generate"]
    /\ UNCHANGED question_usage
    /\ UNCHANGED FlowOthers

\* lines 742-745: the generation call and what generate_questions does with it
GenerateWithAi ==
    /\ flow.pc = "generate"
    /\ AiAttempted(flow.use_ollama, ResumeText(flow.text))
    /\ \E c \in Completions :
          LET ai_questions == generate_questions_with_ollama(c)
              usable == ai_questions.ok /\ ai_questions.questions /= << >>
          IN  flow' = [flow EXCEPT
                  !.completion = c,
                  !.generate_calls = @ + 1,
                  !.events = Append(@, IF usable THEN "generate_ok"
                                       ELSE "generate_failed"),
                  !.questions = IF usable
                                THEN Prefix(ai_questions.questions, MaxQuestions)
                                ELSE << >>,
                  !.pc = NextAfterGenerate(ai_questions)]
    /\ UNCHANGED question_usage
    /\ UNCHANGED FlowOthers

\* lines 748-822: the bank loops
BankBackfill ==
    /\ \/ flow.pc = "backfill"
       \/ flow.pc = "generate" /\ ~AiAttempted(flow.use_ollama, ResumeText(flow.text))
    /\ \E out \in Backfill(question_usage, flow.detected, flow.questions) :
          /\ question_usage' = out.usage
          /\ flow' = [flow EXCEPT !.events = Append(@, "bank_backfill"),
                                  !.questions = out.ret,
                                  !.pc = "done"]
    /\ UNCHANGED FlowOthers

FlowNext ==
    \/ ReceiveText
    \/ DetectWithAi
    \/ FallbackDetect
    \/ GenerateWithAi
    \/ BankBackfill

SpecFlow == FlowInit /\ [][FlowNext]_vars

\* the step model ends where analyze ends: the questions and the usage map of
\* a finished run are an outcome of analyze on the same inputs
FlowAgreesWithAnalyze ==
    flow.pc = "done" =>
        \E r \in analyze(flow.before, flow.text, flow.job_role, flow.use_ollama,
                         flow.detect_completion, flow.completion) :
            /\ ~r.raised
            /\ r.questions = flow.questions
            /\ r.skills = SkillsResponse(flow.detected)
            /\ r.usage = question_usage

\* C22: within one analyze request the completion capability is invoked at
\* most once for skill detection and at most once for question generation,
\* and a call that failed (it raised, its answer did not parse, or it gave
\* nothing usable) is followed at once by its fallback, the vocabulary scan
\* or the bank loops, never by the same call again.  The level completions
\* the vocabulary scan makes per skill serve another purpose and are not
\* counted.
C22_SingleCallThenFallback ==
    /\ flow.detect_calls <= 1
    /\ flow.generate_calls <= 1
    /\ \A i \in 1..Len(flow.events) :
          /\ flow.events[i] = "detect_failed" =>
                IF i < Len(flow.events)
                THEN flow.events[i + 1] = "vocabulary_scan"
                ELSE flow.pc = "fallback_detect"
          /\ flow.events[i] = "generate_failed" =>
                IF i < Len(flow.events)
                THEN flow.events[i + 1] = "bank_backfill"
                ELSE flow.pc = "backfill"

\* a finished request whose two calls both failed and both fell back, with
\* questions served from the bank
C22_Witness ==
    /\ flow.pc = "done"
    /\ flow.events = <<"detect_failed", "vocabulary_scan",
                       "generate_failed", "bank_backfill">>
    /\ flow.detect_calls = 1
    /\ flow.generate_calls = 1
    /\ flow.questions /= << >>

====
